---- MODULE Spec2Model ----
(***************************************************************************)
(* State-machine model of the opencode web UI backend: the chat stream     *)
(* orchestrator (handlers/chat.ts), the abort handler (handlers/abort.ts), *)
(* the command stream of the process runtime (runtime/node.ts) and the     *)
(* session-export conversion (opencode/history.ts, claudeFormat.ts).       *)
(*                                                                         *)
(* Granularity.  The backend is a single-threaded event loop.  One action  *)
(* of the model is one event-loop callback (an HTTP request handler, a     *)
(* 'data', 'close' or 'error' event of the child process) together with    *)
(* the promise continuations it makes runnable: the microtask queue is     *)
(* drained before the next callback runs, so the chat task's for-await     *)
(* loop resumes and runs until it blocks on next() again, or terminates,   *)
(* before any other callback can observe the state.                        *)
(*                                                                         *)
(* Texts.  A text is a sequence of symbols.  The JSON text of a CLI event  *)
(* e is the two symbols <<H(e), T(e)>>, so that a chunk boundary can fall  *)
(* inside a line; NL is "\n", SP is white space, G is text that is not     *)
(* JSON.                                                                   *)
(***************************************************************************)
EXTENDS Integers, Sequences, FiniteSets, TLC

\* ------------------------------------------------------------------ bounds
\* Number of writes (stdout writes and stderr chunks) the CLI processes make.
MaxWrites == 2
\* Number of turns and of parts (over all turns) of an exported session.
MaxTurns == 2
MaxParts == 2

\* ------------------------------------------------------------- value sets
Tasks == {"t1", "t2"}
NoTask == "none"
ReqIds == {"r1", "r2"}

\* A missing (undefined) or empty session id: both are falsy in the code.
NoSid == ""
EventSids == {"s1", "s2"}
RequestSids == {NoSid, "s0"}

\* child.on("close") code: null when the child died from a signal.
Null == -1
ExitCodes == {0, 2}

\* ------------------------------------------------------------- tool names
\* A tool name is a text of letter groups and separators; a letter group
\* (of two letters at least) is written in lower case (Lo), with its first
\* letter in upper case (Cap) or all in upper case (Up).
Lo(s) == [k |-> "letters", s |-> s, form |-> "lower"]
Cap(s) == [k |-> "letters", s |-> s, form |-> "capital"]
Up(s) == [k |-> "letters", s |-> s, form |-> "upper"]
Underscore == [k |-> "sep", s |-> "_"]
Hyphen == [k |-> "sep", s |-> "-"]

BashTool == <<Lo("bash")>>
ExitPlanTool == <<Up("exit"), Underscore, Lo("plan"), Hyphen, Lo("mode")>>

\* String.prototype.toLowerCase and replace(/[_-]/g, "") on a tool name.
ToLowerCase(name) ==
    [i \in DOMAIN name |->
        IF name[i].k = "letters" THEN Lo(name[i].s) ELSE name[i]]

RECURSIVE RemoveSeparators(_)
RemoveSeparators(name) ==
    IF name = <<>> THEN <<>>
    ELSE (IF Head(name).k = "sep" THEN <<>> ELSE <<Head(name)>>)
             \o RemoveSeparators(Tail(name))

\* ------------------------------------------------------------- CLI events
\* CliEvent (chat.ts 15-21) flattened: part.text, part.callID, part.tool and
\* part.state.status are fields of the event; error is event.error.  The
\* tool of an event is bash unless stated.
Ev(type, sid, text, callID, status, error) ==
    [type |-> type, sid |-> sid, text |-> text, callID |-> callID,
     status |-> status, error |-> error, tool |-> BashTool]

TextEvents ==
    {Ev("text", s, "hi", "", "", "") : s \in EventSids \cup {NoSid}}
        \cup {Ev("text", "s1", "", "", "", "")}

ToolEvents ==
    {Ev("tool_use", "s1", "", "c1", st, "") : st \in {"completed", "error"}}
        \cup {Ev("tool_use", "s1", "", "c2", "running", ""),
              Ev("tool_use", NoSid, "", "c2", "completed", ""),
              [Ev("tool_use", "s1", "", "c2", "completed", "")
                   EXCEPT !.tool = ExitPlanTool]}

ErrorEvents == {Ev("error", NoSid, "", "", "", "e1")}

\* An error event whose error is the empty string.
SilentError == Ev("error", NoSid, "", "", "", "")

Events == TextEvents \cup ToolEvents \cup ErrorEvents

\* The events a line of the CLI can parse to.
CliEvents == Events \cup {SilentError}

\* --------------------------------------------------------------- symbols
NL == [k |-> "nl"]
SP == [k |-> "sp"]
G == [k |-> "g"]
\* The byte-order mark U+FEFF.
BOM == [k |-> "bom"]
H(e) == [k |-> "h", ev |-> e]
T(e) == [k |-> "t", ev |-> e]

\* JSON.stringify of a CLI event, as the CLI writes it.
JsonText(e) == <<H(e), T(e)>>

\* What the CLI writes to stdout in one write: an event line, an event
\* without the final newline, a line that is not JSON, a blank line.
StdoutWrites ==
    {JsonText(e) \o <<NL>> : e \in Events}
        \cup {JsonText(Ev("text", "s1", "hi", "", "", "")),
              <<G, NL>>, <<SP, NL>>}

\* A word of diagnostic text (no white space in it).
W(s) == [k |-> "w", s |-> s]

\* stderr chunk texts: white space only, or a message line.
StderrTexts == {<<SP>>, <<W("boom"), NL>>}

\* String.prototype.trim on a text (white-space symbols at both ends; the
\* byte-order mark is white space to trim and to \s).
IsSpace(c) == c = SP \/ c = NL \/ c = BOM

RECURSIVE TrimStart(_)
TrimStart(s) ==
    IF s # <<>> /\ IsSpace(Head(s)) THEN TrimStart(Tail(s)) ELSE s

RECURSIVE TrimEnd(_)
TrimEnd(s) ==
    IF s # <<>> /\ IsSpace(s[Len(s)])
    THEN TrimEnd(SubSeq(s, 1, Len(s) - 1))
    ELSE s

Trim(s) == TrimEnd(TrimStart(s))

\* String.prototype.split("\n"): the pieces between newlines; always at
\* least one piece, the last one being the text after the last newline.
RECURSIVE SplitFrom(_, _, _)
SplitFrom(s, cur, acc) ==
    IF s = <<>> THEN Append(acc, cur)
    ELSE IF Head(s) = NL THEN SplitFrom(Tail(s), <<>>, Append(acc, cur))
    ELSE SplitFrom(Tail(s), Append(cur, Head(s)), acc)

Split(s) == SplitFrom(s, <<>>, <<>>)

\* JSON.parse of a trimmed line: the event whose JSON text it is.
ParseOk(line) == \E e \in CliEvents : line = JsonText(e)
Parse(line) == CHOOSE e \in CliEvents : line = JsonText(e)

\* ------------------------------------------------------ protocol messages
\* ClaudeContentItem (claudeFormat.ts 28-42); name and input of a tool_use
\* item are left out.  NoItem is the null the item builders return.
NoItem == [type |-> "null"]

createTextItem(text) ==
    IF text = "" THEN NoItem ELSE [type |-> "text", text |-> text]

\* Mutant of createThinkingItem: an empty thinking is kept.
createThinkingItem_KeepEmpty(thinking) ==
    [type |-> "thinking", thinking |-> thinking]

createThinkingItem(thinking) ==
    IF thinking = "" THEN NoItem
    ELSE [type |-> "thinking", thinking |-> thinking]

createToolUseItem(part) == [type |-> "tool_use", id |-> part.callID]

createToolResultItem(part) ==
    [type |-> "tool_result", tool_use_id |-> part.callID,
     content |-> IF part.status = "error" THEN "state.error"
                 ELSE "state.output",
     is_error |-> (part.status = "error")]

\* chat.ts 62-75: the tool whose call is always answered with a rejection.
isExitPlanModeTool(part) ==
    RemoveSeparators(ToLowerCase(part.tool)) =
        <<Lo("exit"), Lo("plan"), Lo("mode")>>

createExitPlanModeResultItem(part) ==
    [type |-> "tool_result", tool_use_id |-> part.callID,
     content |-> "Exit plan mode?", is_error |-> TRUE]

\* ClaudeMessage (claudeFormat.ts 44-63): type, session_id, message.content.
ClaudeMessage(type, sessionId, content) ==
    [type |-> type, session_id |-> sessionId, content |-> content]

createInitMessage(sessionId) == ClaudeMessage("system", sessionId, <<>>)

createResultMessage == ClaudeMessage("result", NoSid, <<>>)

createAssistantMessage(sessionId, content) ==
    ClaudeMessage("assistant", sessionId, content)

createUserMessage(sessionId, content) ==
    ClaudeMessage("user", sessionId, content)

\* StreamResponse (shared/types.ts): one NDJSON line of the chat response.
NoData == ClaudeMessage("", NoSid, <<>>)
ClaudeJson(data) == [type |-> "claude_json", data |-> data, error |-> <<>>]
ErrorLine(text) == [type |-> "error", data |-> NoData, error |-> text]
DoneLine == [type |-> "done", data |-> NoData, error |-> <<>>]

\* `opencode exited with code ${code}`
ExitedWithCode(code) == <<[k |-> "exited", code |-> code]>>

\* Error.message of an exception caught at chat.ts 282.
ExceptionMessage == <<W("exception")>>

\* ------------------------------------------------- chat.ts: the stream task
\* The local variables of one start(controller) call (chat.ts 155-159, 235),
\* the lines enqueued on its controller (out) and whether controller.close()
\* was called; cancelled tells that the consumer of the stream (the HTTP
\* server, for a client that went away) has cancelled it.  handled lists the
\* events handleEvent was called with, each with the number of lines written
\* before it and after it (history, not program state).
NewChat(requestSid) ==
    [sessionId |-> requestSid, initSent |-> FALSE, errorText |-> <<>>,
     stderrText |-> <<>>, buffer |-> <<>>, out |-> <<>>, closed |-> FALSE,
     cancelled |-> FALSE, handled |-> <<>>]

enqueueResponse(c, payload) == [c EXCEPT !.out = Append(@, payload)]

getEventSession(event, fallback) ==
    IF event.sid # NoSid THEN event.sid ELSE fallback

\* Mutant of sendInit: the initSent guard is missing.
sendInit_NoGuard(c, resolvedSessionId) ==
    [enqueueResponse(c, ClaudeJson(createInitMessage(resolvedSessionId)))
        EXCEPT !.initSent = TRUE]

sendInit(c, resolvedSessionId) ==
    IF c.initSent THEN c
    ELSE [enqueueResponse(c, ClaudeJson(createInitMessage(resolvedSessionId)))
            EXCEPT !.initSent = TRUE]

\* errorMessage (chat.ts 223-226) of an error event whose error is a
\* string: the string itself, no text for the empty string.
ErrorMessage(event) == IF event.error = "" THEN <<>> ELSE <<W(event.error)>>

\* `errorText ? errorText + "\n" + errorMessage : errorMessage` (227).
JoinError(errorText, errorMessage) ==
    IF errorText # <<>> THEN errorText \o <<NL>> \o errorMessage
    ELSE errorMessage

\* The body of handleEvent after the init attempt (chat.ts 183-232).
HandleEventBody(c, event, resolvedSessionId) ==
    CASE event.type = "text" ->
            IF event.text = "" \/ resolvedSessionId = NoSid THEN c
            ELSE enqueueResponse(c, ClaudeJson(createAssistantMessage(
                     resolvedSessionId, <<createTextItem(event.text)>>)))
      [] event.type = "tool_use" ->
            IF resolvedSessionId = NoSid THEN c
            ELSE enqueueResponse(
                     enqueueResponse(c, ClaudeJson(createAssistantMessage(
                         resolvedSessionId, <<createToolUseItem(event)>>))),
                     ClaudeJson(createUserMessage(
                         resolvedSessionId,
                         <<IF isExitPlanModeTool(event)
                           THEN createExitPlanModeResultItem(event)
                           ELSE createToolResultItem(event)>>)))
      [] event.type = "error" ->
            enqueueResponse(
                [c EXCEPT !.errorText = JoinError(@, ErrorMessage(event))],
                ErrorLine(ErrorMessage(event)))
      [] OTHER -> c

\* handleEvent on a cancelled stream, after the session id was recorded:
\* controller.enqueue throws a TypeError, which the try around JSON.parse
\* and handleEvent (chat.ts 251-259) catches.  Only what was assigned
\* before the first enqueue stays: nothing when sendInit throws, errorText
\* of an error event otherwise.
HandleEventCancelled(c, event, resolvedSessionId) ==
    IF resolvedSessionId # NoSid /\ ~c.initSent THEN c
    ELSE IF event.type = "error"
    THEN [c EXCEPT !.errorText = JoinError(@, ErrorMessage(event))]
    ELSE c

\* Mutant of handleEvent: the init message is left to the end of the
\* stream.
handleEvent_InitAtEnd(c, event) ==
    LET resolvedSessionId == getEventSession(event, c.sessionId)
        c1 == IF resolvedSessionId # NoSid /\ c.sessionId = NoSid
              THEN [c EXCEPT !.sessionId = resolvedSessionId]
              ELSE c
        c3 == IF c.cancelled
              THEN HandleEventCancelled(c1, event, resolvedSessionId)
              ELSE HandleEventBody(c1, event, resolvedSessionId)
    IN [c3 EXCEPT !.handled =
            Append(@, [event |-> event, resolved |-> resolvedSessionId,
                       before |-> Len(c.out), after |-> Len(c3.out)])]

handleEvent(c, event) ==
    LET resolvedSessionId == getEventSession(event, c.sessionId)
        c1 == IF resolvedSessionId # NoSid /\ c.sessionId = NoSid
              THEN [c EXCEPT !.sessionId = resolvedSessionId]
              ELSE c
        c2 == IF resolvedSessionId # NoSid
              THEN sendInit(c1, resolvedSessionId)
              ELSE c1
        c3 == IF c.cancelled
              THEN HandleEventCancelled(c1, event, resolvedSessionId)
              ELSE HandleEventBody(c2, event, resolvedSessionId)
    IN [c3 EXCEPT !.handled =
            Append(@, [event |-> event, resolved |-> resolvedSessionId,
                       before |-> Len(c.out), after |-> Len(c3.out)])]

\* Mutant of HandleLine: a line that fails to parse is reported to the
\* client as an error line.
HandleLine_ReportsParseError(c, line) ==
    LET trimmed == Trim(line)
    IN IF trimmed = <<>> THEN c
       ELSE IF ParseOk(trimmed) THEN handleEvent(c, Parse(trimmed))
       ELSE enqueueResponse(c, ErrorLine(trimmed))

\* One line of the for loop at chat.ts 248-260.
HandleLine(c, line) ==
    LET trimmed == Trim(line)
    IN IF trimmed = <<>> THEN c
       ELSE IF ParseOk(trimmed) THEN handleEvent(c, Parse(trimmed))
       ELSE c

RECURSIVE HandleLines(_, _)
HandleLines(c, lines) ==
    IF lines = <<>> THEN c
    ELSE HandleLines(HandleLine(c, Head(lines)), Tail(lines))

\* Mutant of HandleChunk: the text after the last newline of a chunk is
\* not held for the next chunk.
HandleChunk_NoBuffer(c, chunk) ==
    IF chunk.source = "stderr"
    THEN IF Len(Trim(chunk.text)) > 0
         THEN [c EXCEPT !.stderrText = @ \o chunk.text]
         ELSE c
    ELSE LET lines == Split(chunk.text)
             n == Len(lines)
         IN HandleLines([c EXCEPT !.buffer = lines[n]],
                        SubSeq(lines, 1, n - 1))

\* The body of the for-await loop for one chunk (chat.ts 237-260).
HandleChunk(c, chunk) ==
    IF chunk.source = "stderr"
    THEN IF Len(Trim(chunk.text)) > 0
         THEN [c EXCEPT !.stderrText = @ \o chunk.text]
         ELSE c
    ELSE LET lines == Split(c.buffer \o chunk.text)
             n == Len(lines)
         IN HandleLines([c EXCEPT !.buffer = lines[n]],
                        SubSeq(lines, 1, n - 1))

\* Mutant of FinishStream: init and result are written whether or not a
\* session id is known.
FinishStream_AlwaysResult(c, code) ==
    LET c1 == IF code # 0 /\ c.errorText = <<>>
              THEN enqueueResponse(c, ErrorLine(
                       IF Trim(c.stderrText) # <<>> THEN Trim(c.stderrText)
                       ELSE ExitedWithCode(code)))
              ELSE c
        c2 == enqueueResponse(sendInit(c1, c1.sessionId),
                              ClaudeJson(createResultMessage))
    IN [enqueueResponse(c2, DoneLine) EXCEPT !.closed = TRUE]

\* Mutant of FinishStream: the result message is written after done.
FinishStream_ResultAfterDone(c, code) ==
    LET c1 == IF code # 0 /\ c.errorText = <<>>
              THEN enqueueResponse(c, ErrorLine(
                       IF Trim(c.stderrText) # <<>> THEN Trim(c.stderrText)
                       ELSE ExitedWithCode(code)))
              ELSE c
        c2 == enqueueResponse(c1, DoneLine)
        c3 == IF c2.sessionId # NoSid
              THEN enqueueResponse(sendInit(c2, c2.sessionId),
                                   ClaudeJson(createResultMessage))
              ELSE c2
    IN [c3 EXCEPT !.closed = TRUE]

\* Mutant of FinishStream: the captured stderr is not trimmed.
FinishStream_NoTrim(c, code) ==
    LET c1 == IF code # 0 /\ c.errorText = <<>>
              THEN enqueueResponse(c, ErrorLine(
                       IF c.stderrText # <<>> THEN c.stderrText
                       ELSE ExitedWithCode(code)))
              ELSE c
        c2 == IF c1.sessionId # NoSid
              THEN enqueueResponse(sendInit(c1, c1.sessionId),
                                   ClaudeJson(createResultMessage))
              ELSE c1
    IN [enqueueResponse(c2, DoneLine) EXCEPT !.closed = TRUE]

\* After the loop: chat.ts 263-281.
FinishStream(c, code) ==
    LET c1 == IF code # 0 /\ c.errorText = <<>>
              THEN enqueueResponse(c, ErrorLine(
                       IF Trim(c.stderrText) # <<>> THEN Trim(c.stderrText)
                       ELSE ExitedWithCode(code)))
              ELSE c
        c2 == IF c1.sessionId # NoSid
              THEN enqueueResponse(sendInit(c1, c1.sessionId),
                                   ClaudeJson(createResultMessage))
              ELSE c1
    IN [enqueueResponse(c2, DoneLine) EXCEPT !.closed = TRUE]

\* The catch block: chat.ts 282-288.
CatchException(c) ==
    [enqueueResponse(c, ErrorLine(ExceptionMessage)) EXCEPT !.closed = TRUE]

\* ------------------------------------------- history.ts: session export
\* Times are milliseconds: a turn is created at 1, its tool calls run from
\* 2 to 3.  NoTime is a missing info.time.created, Now the value of
\* Date.now() when the export is converted.
NoTime == 0
Now == 9
CreatedTimes == {1}

\* toIso (history.ts 39-41): the ISO text of a time; ISO texts of equal
\* length are ordered like the times they denote.
toIso(timestampMs) == [iso |-> timestampMs]

\* `if (options.timestamp) return {...message, timestamp}` of the message
\* builders (claudeFormat.ts 131-136, 156-161).
Timestamped(message, timestamp) ==
    [type |-> message.type, session_id |-> message.session_id,
     content |-> message.content, timestamp |-> timestamp]

\* The parts of an exported turn (history.ts 23-37), flattened like the CLI
\* events: a tool part carries callID, tool, state.status and state.time.
\* A user turn holds text and file parts, an assistant turn text, reasoning
\* and tool parts.
TextPart(text) == [type |-> "text", text |-> text]
ToolPart(callID, tool, status, start, end) ==
    [type |-> "tool", callID |-> callID, tool |-> tool, status |-> status,
     time |-> [start |-> start, end |-> end]]

UserParts == {TextPart("q"), TextPart(""), [type |-> "file"]}

AssistantParts ==
    {TextPart("a"), TextPart(""), [type |-> "reasoning", text |-> "why"],
     [type |-> "reasoning", text |-> ""],
     ToolPart("c1", BashTool, "completed", 2, 3),
     ToolPart("c1", BashTool, "error", 2, 3),
     ToolPart("c2", BashTool, "running", 2, 3),
     ToolPart("c2", ExitPlanTool, "completed", 2, 3)}

PartsOf(role) == IF role = "user" THEN UserParts ELSE AssistantParts

isToolPart(part) == part.type = "tool"

getToolResultTimestamp(part) ==
    IF part.status = "completed" \/ part.status = "error"
    THEN part.time.end
    ELSE part.time.start

\* parts.filter(text).map(createTextItem).filter(Boolean)
RECURSIVE UserContent(_)
UserContent(parts) ==
    IF parts = <<>> THEN <<>>
    ELSE LET part == Head(parts)
             item == IF part.type = "text" THEN createTextItem(part.text)
                     ELSE NoItem
         IN (IF item # NoItem THEN <<item>> ELSE <<>>)
                \o UserContent(Tail(parts))

buildUserMessage(sessionId, parts, createdAt) ==
    Timestamped(createUserMessage(sessionId, UserContent(parts)),
                toIso(createdAt))

buildToolResultMessage(sessionId, part) ==
    Timestamped(createUserMessage(sessionId, <<createToolResultItem(part)>>),
                toIso(getToolResultTimestamp(part)))

\* Mutant of Flush: an assistant message is pushed also when no content is
\* pending.
Flush_NoGuard(sessionId, createdAt, b) ==
    [messages |->
         Append(b.messages,
                Timestamped(createAssistantMessage(sessionId, b.content),
                            toIso(createdAt))),
     content |-> <<>>, hasContent |-> FALSE]

\* flush of buildAssistantMessages (history.ts 80-91) on the loop state
\* [messages, content, hasContent].
Flush(sessionId, createdAt, b) ==
    IF ~b.hasContent THEN b
    ELSE [messages |->
              Append(b.messages,
                     Timestamped(createAssistantMessage(sessionId, b.content),
                                 toIso(createdAt))),
          content |-> <<>>, hasContent |-> FALSE]

\* Mutant of AssistantPart: the pending content is not flushed before the
\* tool result message is pushed.
AssistantPart_NoFlush(sessionId, createdAt, b, part) ==
    CASE part.type = "text" ->
            LET item == createTextItem(part.text)
            IN IF item # NoItem
               THEN [b EXCEPT !.content = Append(@, item), !.hasContent = TRUE]
               ELSE b
      [] part.type = "reasoning" ->
            LET item == createThinkingItem(part.text)
            IN IF item # NoItem
               THEN [b EXCEPT !.content = Append(@, item), !.hasContent = TRUE]
               ELSE b
      [] isToolPart(part) ->
            LET b1 == [b EXCEPT !.content = Append(@, createToolUseItem(part)),
                                !.hasContent = TRUE]
            IN IF part.status = "completed" \/ part.status = "error"
               THEN [b1 EXCEPT !.messages =
                        Append(@, buildToolResultMessage(sessionId, part))]
               ELSE b1
      [] OTHER -> b

\* One iteration of the loop over the parts (history.ts 93-122).
AssistantPart(sessionId, createdAt, b, part) ==
    CASE part.type = "text" ->
            LET item == createTextItem(part.text)
            IN IF item # NoItem
               THEN [b EXCEPT !.content = Append(@, item), !.hasContent = TRUE]
               ELSE b
      [] part.type = "reasoning" ->
            LET item == createThinkingItem(part.text)
            IN IF item # NoItem
               THEN [b EXCEPT !.content = Append(@, item), !.hasContent = TRUE]
               ELSE b
      [] isToolPart(part) ->
            LET b1 == [b EXCEPT !.content = Append(@, createToolUseItem(part)),
                                !.hasContent = TRUE]
            IN IF part.status = "completed" \/ part.status = "error"
               THEN [Flush(sessionId, createdAt, b1) EXCEPT !.messages =
                        Append(@, buildToolResultMessage(sessionId, part))]
               ELSE b1
      [] OTHER -> b

RECURSIVE AssistantLoop(_, _, _, _)
AssistantLoop(sessionId, createdAt, b, parts) ==
    IF parts = <<>> THEN b
    ELSE AssistantLoop(sessionId, createdAt,
                       AssistantPart(sessionId, createdAt, b, Head(parts)),
                       Tail(parts))

buildAssistantMessages(sessionId, parts, createdAt) ==
    Flush(sessionId, createdAt,
          AssistantLoop(sessionId, createdAt,
                        [messages |-> <<>>, content |-> <<>>,
                         hasContent |-> FALSE],
                        parts)).messages

RECURSIVE convertExportMessages(_)
convertExportMessages(messages) ==
    IF messages = <<>> THEN <<>>
    ELSE LET item == Head(messages)
             createdAt == IF item.created # NoTime THEN item.created ELSE Now
         IN (IF item.role = "user"
             THEN <<buildUserMessage(item.sessionID, item.parts, createdAt)>>
             ELSE buildAssistantMessages(item.sessionID, item.parts,
                                         createdAt))
                \o convertExportMessages(Tail(messages))

\* --------------------------------------------------------------- the state
VARIABLES
    pc,         \* task -> "off" | "idle" | "streaming" | "closed"
    req,        \* task -> the ChatRequest it sends (requestId, sessionId)
    chat,       \* task -> the locals and output of its start(controller) call
    term,       \* task -> how start() ended: "" | "normal" | "caught" |
                \* "threw" (the catch block threw)
    registry,   \* requestAbortControllers: requestId -> the task whose
                \* RequestState is stored under it, or NoTask
    aborted,    \* task -> requestState.abortController.signal.aborted
    child,      \* task -> "none" | "spawning" | "running" | "closed" |
                \* "failed" ('error' event) | "failedClosed" ('close' after
                \* it) | "unspawned" (spawn threw) | "exited" (Deno: the
                \* status has resolved, the pipes may still hold output)
    signalled,  \* task -> a kill signal was sent to the live child
    listenerKills, \* task -> child.kill() calls made by the abort listener
    callbackKills, \* task -> child.kill() calls made through the kill callback
    pipe,       \* task -> stdout text written by the CLI, not yet read
    queue,      \* task -> queue of runCommandStream
    waiters,    \* task -> number of pending next() calls (waiters.length)
    ended,      \* task -> ended of runCommandStream
    exit,       \* task -> value the exit promise resolved with, or Unsettled
    budget,     \* writes the CLI processes may still make
    abortResp,  \* the response of the last abort call
    exportPc,   \* "off" | "stored" | "converted": the conversation request
    session,    \* the messages of the session the CLI exports
    exported,   \* the messages of the conversation response
    external,   \* server.ts: state.external
    healthy,    \* what GET /health of the server URL answers at present
    process,    \* server.ts: state.process, the number of the start that
                \* spawned it, or NoStart for undefined
    starting,   \* server.ts: state.starting, the number of the start whose
                \* promise it holds, or NoStart for undefined
    start,      \* start number -> "none" | "polling" | "overdue" |
                \* "resolved" | "rejected": the startServer calls
    caller,     \* caller -> its ensure or restart call
    spawns,     \* number of server processes spawned
    serverKills, \* number of kill() calls on a server process
    alive,      \* the starts whose server process is running
    killed,     \* the starts whose server process kill() was called on
    serving,    \* the start whose server process answers GET /health, or
                \* NoStart: no answer, or a server the backend did not spawn
    argRequest, \* the chat request whose CLI invocation is built
    argResult,  \* the arguments and environment built for it
    fileQuery,  \* the query of a GET /api/file request
    fileResponse, \* the response to it
    historiesRun, \* the query of a history list request and what the
                \* CLI's session list command gave for it
    historiesResponse, \* the response to it
    toolName,   \* the tool name of a part
    claudeName, \* the display name made of it
    reads       \* task -> what the next() calls on its command stream
                \* resolved with, in the order they were resolved

procVars == <<child, signalled, listenerKills, callbackKills, pipe, queue,
              waiters, ended, exit, budget>>
chatVars == <<pc, req, chat, term, registry, aborted, abortResp>>
exportVars == <<exportPc, session, exported>>
serverVars == <<external, healthy, process, starting, start, caller, spawns,
                serverKills, alive, killed, serving>>
argsVars == <<argRequest, argResult>>
fileVars == <<fileQuery, fileResponse>>
listVars == <<historiesRun, historiesResponse>>
nameVars == <<toolName, claudeName>>
readVars == <<reads>>
otherVars == <<serverVars, argsVars, fileVars, listVars, nameVars, readVars>>
handlerVars == <<chatVars, procVars, exportVars, argsVars, fileVars,
                 listVars, nameVars, readVars>>
vars == <<chatVars, procVars, exportVars, otherVars>>

\* The exit promise is pending.
Unsettled == -99

\* The code of the 'close' event that follows the 'error' event of a failed
\* spawn: the negative errno (ENOENT).
Enoent == -2

\* resolve of the exit promise (node.ts 156-165): a settled promise keeps
\* its value.
SettleExit_Overwrite(current, code) == code

SettleExit(current, code) == IF current = Unsettled THEN code ELSE current
NoResponse == [requestId |-> "", status |-> 0]

\* ---------------------------------------------------- server.ts: the state
\* Bound: the number of server processes the backend spawns.
MaxStarts == 2
StartIds == 1..MaxStarts
NoStart == 0

Callers == {"a", "b"}

\* A request handler that is not calling the server bridge.
IdleCaller == [op |-> "none", pc |-> "idle", ok |-> FALSE, awaits |-> NoStart,
               result |-> "none"]

\* The module state of server.ts (17-24) with the server not reachable and
\* no call under way.
ServerIdle(isExternal) ==
    /\ external = isExternal
    /\ healthy = FALSE
    /\ process = NoStart
    /\ starting = NoStart
    /\ start = [s \in StartIds |-> "none"]
    /\ caller = [c \in Callers |-> IdleCaller]
    /\ spawns = 0
    /\ serverKills = 0
    /\ alive = {}
    /\ killed = {}
    /\ serving = NoStart

\* No CLI invocation is being built and no file is requested.
NoArgs == [args |-> <<>>, env |-> <<>>]
NoFileResponse == [status |-> 0, path |-> <<>>]

NoRun == [path |-> <<>>, success |-> FALSE, stdout |-> <<>>, array |-> <<>>]
NoHistories == [status |-> 0]

\* No history list is requested.
ListIdle(run) ==
    /\ historiesRun = run
    /\ historiesResponse = NoHistories

\* No tool name is converted.
NoName == [converted |-> FALSE, name |-> <<>>]

NameIdle(tool) ==
    /\ toolName = tool
    /\ claudeName = NoName

PureIdle(request, query) ==
    /\ argRequest = request
    /\ argResult = NoArgs
    /\ fileQuery = query
    /\ fileResponse = NoFileResponse
    /\ ListIdle(NoRun)
    /\ NameIdle(<<>>)

NoChatRequest == [permissionMode |-> "", sessionId |-> NoSid, model |-> <<>>,
                  opencodeModel |-> <<>>]
NoFileQuery == [path |-> <<>>, workingDirectory |-> <<>>]

\* The registry, the tasks and the conversation request before any request:
\* clients are the tasks that will send a chat request, exportPc0 tells
\* whether a conversation request will be made.
HandlersIdle(clients, exportPc0) ==
    /\ pc = [t \in Tasks |-> IF t \in clients THEN "idle" ELSE "off"]
    /\ exportPc = exportPc0
    /\ req = [t \in Tasks |-> [requestId |-> "r1", sessionId |-> NoSid]]
    /\ chat = [t \in Tasks |-> NewChat(NoSid)]
    /\ term = [t \in Tasks |-> ""]
    /\ registry = [r \in ReqIds |-> NoTask]
    /\ aborted = [t \in Tasks |-> FALSE]
    /\ child = [t \in Tasks |-> "none"]
    /\ signalled = [t \in Tasks |-> FALSE]
    /\ listenerKills = [t \in Tasks |-> 0]
    /\ callbackKills = [t \in Tasks |-> 0]
    /\ pipe = [t \in Tasks |-> <<>>]
    /\ queue = [t \in Tasks |-> <<>>]
    /\ waiters = [t \in Tasks |-> 0]
    /\ ended = [t \in Tasks |-> FALSE]
    /\ exit = [t \in Tasks |-> Unsettled]
    /\ budget = MaxWrites
    /\ reads = [t \in Tasks |-> <<>>]
    /\ abortResp = NoResponse
    /\ session = <<>>
    /\ exported = <<>>

\* The server is up with an empty registry.  The chat/abort handlers and
\* the conversation handler share no state: a behaviour follows either the
\* chat request of a client (task t1, which will send requestId r1; r2 is
\* an id no request uses) or one conversation request.
Init ==
    /\ HandlersIdle({"t1"}, "off") \/ HandlersIdle({}, "stored")
    /\ ServerIdle(FALSE)
    /\ PureIdle(NoChatRequest, NoFileQuery)

\* Mutant of Unregister: the finally block deletes nothing.
Unregister_Never(reg, requestId) == reg

\* The finally block: chat.ts 289-293.
Unregister(reg, requestId) ==
    IF reg[requestId] # NoTask THEN [reg EXCEPT ![requestId] = NoTask]
    ELSE reg

\* What throws inside the try of start(): nothing, the building of the
\* arguments (chat.ts 131), or runCommandStream itself (chat.ts 147), when
\* Deno's spawn() (deno.ts 98-104) cannot launch the process.
Throws == {"no", "args", "spawn"}

\* POST /api/chat: handleChatRequest up to its first suspension.  The
\* request state is registered (chat.ts 122-128); building the arguments or
\* spawning may throw (throws), which runs the catch and finally blocks at
\* once; otherwise the child is spawned, the kill callback attached and the
\* for-await loop calls next(), which finds the queue empty and waits.
ChatRequest(t, sessionId, throws) ==
    /\ pc[t] = "idle"
    /\ req' = [req EXCEPT ![t].sessionId = sessionId]
    /\ IF throws # "no"
       THEN /\ chat' = [chat EXCEPT ![t] = CatchException(NewChat(sessionId))]
            /\ pc' = [pc EXCEPT ![t] = "closed"]
            /\ term' = [term EXCEPT ![t] = "caught"]
            /\ registry' =
                   Unregister([registry EXCEPT ![req[t].requestId] = t],
                              req[t].requestId)
            /\ child' = [child EXCEPT ![t] =
                             IF throws = "spawn" THEN "unspawned" ELSE @]
            /\ UNCHANGED waiters
       ELSE /\ chat' = [chat EXCEPT ![t] = NewChat(sessionId)]
            /\ pc' = [pc EXCEPT ![t] = "streaming"]
            /\ registry' = [registry EXCEPT ![req[t].requestId] = t]
            /\ child' = [child EXCEPT ![t] = "spawning"]
            /\ waiters' = [waiters EXCEPT ![t] = 1]
            /\ UNCHANGED term
    /\ UNCHANGED <<aborted, abortResp, signalled, listenerKills,
                   callbackKills, pipe, queue, ended, exit, budget>>
    /\ UNCHANGED <<exportVars, otherVars>>

Live(t) == child[t] \in {"spawning", "running"}

\* The CLI writes to its stdout.
CliWrite(t, text) ==
    /\ Live(t)
    /\ budget > 0
    /\ budget' = budget - 1
    /\ pipe' = [pipe EXCEPT ![t] = @ \o text]
    /\ child' = [child EXCEPT ![t] = "running"]
    /\ UNCHANGED <<signalled, listenerKills, callbackKills, queue, waiters,
                   ended, exit>>
    /\ UNCHANGED <<chatVars, exportVars, otherVars>>

\* push (node.ts 131-138) followed by the chat task's continuation: with a
\* reader waiting the chunk is handed to it, the loop body runs and next()
\* is called again (node.ts 177-187); without one the chunk is queued.
PushChunk(t, chunk) ==
    IF waiters[t] > 0
    THEN /\ chat' = [chat EXCEPT ![t] = HandleChunk(@, chunk)]
         /\ UNCHANGED <<queue, waiters>>
    ELSE /\ queue' = [queue EXCEPT ![t] = Append(@, chunk)]
         /\ UNCHANGED <<chat, waiters>>

\* child.stdout.on("data"): the runtime reads some first n symbols of the
\* pipe as one chunk.
StdoutData(t) ==
    /\ Live(t)
    /\ \E n \in 1..Len(pipe[t]) :
           /\ PushChunk(t, [source |-> "stdout",
                            text |-> SubSeq(pipe[t], 1, n)])
           /\ pipe' = [pipe EXCEPT ![t] = SubSeq(@, n + 1, Len(@))]
    /\ UNCHANGED <<pc, req, term, registry, aborted, abortResp>>
    /\ UNCHANGED <<child, signalled, listenerKills, callbackKills, ended,
                   exit, budget>>
    /\ UNCHANGED <<exportVars, otherVars>>

\* child.stderr.on("data"): the CLI wrote text to its stderr.
StderrData(t, text) ==
    /\ Live(t)
    /\ budget > 0
    /\ budget' = budget - 1
    /\ PushChunk(t, [source |-> "stderr", text |-> text])
    /\ child' = [child EXCEPT ![t] = "running"]
    /\ UNCHANGED <<pc, req, term, registry, aborted, abortResp>>
    /\ UNCHANGED <<signalled, listenerKills, callbackKills, pipe, ended,
                   exit>>
    /\ UNCHANGED <<exportVars, otherVars>>

\* finish (node.ts 140-146) and the settling of exit with code, followed by
\* the chat task's continuation: a waiting reader gets done, the loop ends,
\* the task reads the exit code, writes the tail of the stream and runs its
\* finally block.  On a cancelled stream the first enqueue of the tail
\* throws, the enqueue of the catch block throws again, and only the
\* finally block has an effect.
FinishAndResume(t, code) ==
    /\ ended' = [ended EXCEPT ![t] = TRUE]
    /\ waiters' = [waiters EXCEPT ![t] = 0]
    /\ exit' = [exit EXCEPT ![t] = SettleExit(@, code)]
    /\ IF waiters[t] > 0 /\ pc[t] = "streaming"
       THEN /\ IF chat[t].cancelled
               THEN /\ term' = [term EXCEPT ![t] = "threw"]
                    /\ UNCHANGED chat
               ELSE /\ chat' = [chat EXCEPT ![t] = FinishStream(@, exit'[t])]
                    /\ term' = [term EXCEPT ![t] = "normal"]
            /\ pc' = [pc EXCEPT ![t] = "closed"]
            /\ registry' = Unregister(registry, req[t].requestId)
       ELSE UNCHANGED <<chat, pc, term, registry>>

\* child.on("close"): the child has exited and its pipes are drained; code
\* is null when a signal ended it (node.ts 157-160).
ChildClose(t, code) ==
    /\ Live(t)
    /\ pipe[t] = <<>>
    /\ code = Null => signalled[t]
    /\ FinishAndResume(t, IF code = Null THEN 1 ELSE code)
    /\ child' = [child EXCEPT ![t] = "closed"]
    /\ UNCHANGED <<req, aborted, abortResp, signalled, listenerKills,
                   callbackKills, pipe, queue, budget>>
    /\ UNCHANGED <<exportVars, otherVars>>

\* child.on("error"): the process could not be launched (node.ts 161-164).
ChildError(t) ==
    /\ child[t] = "spawning"
    /\ FinishAndResume(t, 1)
    /\ child' = [child EXCEPT ![t] = "failed"]
    /\ UNCHANGED <<req, aborted, abortResp, signalled, listenerKills,
                   callbackKills, pipe, queue, budget>>
    /\ UNCHANGED <<exportVars, otherVars>>

\* child.on("close") after child.on("error"): Node emits both for a process
\* that could not be launched; finish and resolve run a second time.
ChildCloseAfterError(t, code) ==
    /\ child[t] = "failed"
    /\ FinishAndResume(t, code)
    /\ child' = [child EXCEPT ![t] = "failedClosed"]
    /\ UNCHANGED <<req, aborted, abortResp, signalled, listenerKills,
                   callbackKills, pipe, queue, budget>>
    /\ UNCHANGED <<exportVars, otherVars>>

\* child.kill(), called byListener times by the abort listener and
\* byCallback times through the kill callback: a live child gets the signal.
Kill(t, byListener, byCallback) ==
    /\ listenerKills' = [listenerKills EXCEPT ![t] = @ + byListener]
    /\ callbackKills' = [callbackKills EXCEPT ![t] = @ + byCallback]
    /\ signalled' =
           [signalled EXCEPT ![t] = @ \/ (byListener + byCallback > 0 /\ Live(t))]

\* Mutant of handleAbortRequest: the kill callback is not invoked.
handleAbortRequest_NoKillCallback(requestId) ==
    LET t == registry[requestId]
    IN IF t = NoTask
       THEN /\ abortResp' = [requestId |-> requestId, status |-> 404]
            /\ UNCHANGED <<registry, aborted, listenerKills, callbackKills,
                           signalled>>
       ELSE /\ aborted' = [aborted EXCEPT ![t] = TRUE]
            /\ Kill(t, IF aborted[t] THEN 0 ELSE 1, 0)
            /\ registry' = [registry EXCEPT ![requestId] = NoTask]
            /\ abortResp' = [requestId |-> requestId, status |-> 200]

\* Mutant of handleAbortRequest: an unknown requestId is answered with
\* success.
handleAbortRequest_UnknownOk(requestId) ==
    LET t == registry[requestId]
    IN IF t = NoTask
       THEN /\ abortResp' = [requestId |-> requestId, status |-> 200]
            /\ UNCHANGED <<registry, aborted, listenerKills, callbackKills,
                           signalled>>
       ELSE /\ aborted' = [aborted EXCEPT ![t] = TRUE]
            /\ Kill(t, IF aborted[t] THEN 0 ELSE 1, 1)
            /\ registry' = [registry EXCEPT ![requestId] = NoTask]
            /\ abortResp' = [requestId |-> requestId, status |-> 200]

\* POST /api/abort/:requestId (abort.ts 12-39).  abort() on the controller
\* runs the once-listener of runCommandStream (node.ts 167-172), which
\* kills the child; then the kill callback (node.ts 194) kills it again.
handleAbortRequest(requestId) ==
    LET t == registry[requestId]
    IN IF t = NoTask
       THEN /\ abortResp' = [requestId |-> requestId, status |-> 404]
            /\ UNCHANGED <<registry, aborted, listenerKills, callbackKills,
                           signalled>>
       ELSE /\ aborted' = [aborted EXCEPT ![t] = TRUE]
            /\ Kill(t, IF aborted[t] THEN 0 ELSE 1, 1)
            /\ registry' = [registry EXCEPT ![requestId] = NoTask]
            /\ abortResp' = [requestId |-> requestId, status |-> 200]

AbortRequest(requestId) ==
    /\ \E t \in Tasks : pc[t] # "off"
    /\ handleAbortRequest(requestId)
    /\ UNCHANGED <<pc, req, chat, term, child, pipe, queue, waiters, ended,
                   exit, budget>>
    /\ UNCHANGED <<exportVars, otherVars>>

\* The CLI's session store: a turn is added to the session (with its
\* creation time, which an export may lack), or a part to its last turn.
SessionTurn(role, created) ==
    /\ exportPc = "stored"
    /\ Len(session) < MaxTurns
    /\ session' = Append(session,
                         [role |-> role, sessionID |-> "s1",
                          created |-> created, parts |-> <<>>])
    /\ UNCHANGED <<exportPc, exported, chatVars, procVars, otherVars>>

RECURSIVE PartCount(_)
PartCount(messages) ==
    IF messages = <<>> THEN 0
    ELSE Len(Head(messages).parts) + PartCount(Tail(messages))

SessionPart(part) ==
    /\ exportPc = "stored"
    /\ session # <<>>
    /\ PartCount(session) < MaxParts
    /\ part \in PartsOf(session[Len(session)].role)
    /\ session' = [session EXCEPT ![Len(session)].parts = Append(@, part)]
    /\ UNCHANGED <<exportPc, exported, chatVars, procVars, otherVars>>

\* GET .../histories/:sessionId: handleConversationRequest exports the
\* session and converts its messages (conversations.ts 37-42).
ConversationRequest ==
    /\ exportPc = "stored"
    /\ exportPc' = "converted"
    /\ exported' = convertExportMessages(session)
    /\ UNCHANGED <<session, chatVars, procVars, otherVars>>

Next ==
    \/ \E t \in Tasks, s \in RequestSids, th \in Throws :
           ChatRequest(t, s, th)
    \/ \E t \in Tasks, w \in StdoutWrites : CliWrite(t, w)
    \/ \E t \in Tasks : StdoutData(t)
    \/ \E t \in Tasks, x \in StderrTexts : StderrData(t, x)
    \/ \E t \in Tasks, c \in ExitCodes \cup {Null} : ChildClose(t, c)
    \/ \E t \in Tasks : ChildError(t)
    \/ \E t \in Tasks : ChildCloseAfterError(t, Enoent)
    \/ \E r \in ReqIds : AbortRequest(r)
    \/ \E role \in {"user", "assistant"}, c \in CreatedTimes \cup {NoTime} :
           SessionTurn(role, c)
    \/ \E p \in UserParts \cup AssistantParts : SessionPart(p)
    \/ ConversationRequest

Spec == Init /\ [][Next]_vars

\* ------------------------------------------------- a client that goes away
\* The client of a chat response drops the connection and the HTTP server
\* cancels the response stream.  The underlying source handed to
\* ReadableStream (chat.ts 119-295) has a start method only, no cancel
\* method, and the request's abort signal is not consulted: nothing of the
\* handler runs, the stream is merely no longer writable.
ClientDrop(t) ==
    /\ pc[t] = "streaming"
    /\ ~chat[t].cancelled
    /\ chat' = [chat EXCEPT ![t].cancelled = TRUE]
    /\ UNCHANGED <<pc, req, term, registry, aborted, abortResp>>
    /\ UNCHANGED <<procVars, exportVars, otherVars>>

NextDrop ==
    \/ Next
    \/ \E t \in Tasks : ClientDrop(t)

SpecDrop == Init /\ [][NextDrop]_vars

\* --------------------------------------------- two clients, one requestId
\* Two clients (tasks t1 and t2) send chat requests under the requestId r1.
\* A client uses the id only when no request is registered under it: at
\* first, after the stream of the earlier request has ended, or after the
\* abort call for it was answered.
FreshRequest(t, sessionId, throws) ==
    /\ registry[req[t].requestId] = NoTask
    /\ ChatRequest(t, sessionId, throws)

\* What the CLI processes write in these behaviours (and in those of the
\* Deno runtime): a text event.
RaceWrites == {JsonText(Ev("text", "s1", "hi", "", "", "")) \o <<NL>>}

InitRace ==
    /\ HandlersIdle(Tasks, "off")
    /\ ServerIdle(FALSE)
    /\ PureIdle(NoChatRequest, NoFileQuery)

NextRace ==
    \/ \E t \in Tasks, s \in RequestSids, th \in Throws :
           FreshRequest(t, s, th)
    \/ \E t \in Tasks, w \in RaceWrites : CliWrite(t, w)
    \/ \E t \in Tasks : StdoutData(t)
    \/ \E t \in Tasks, x \in StderrTexts : StderrData(t, x)
    \/ \E t \in Tasks, c \in ExitCodes \cup {Null} : ChildClose(t, c)
    \/ \E t \in Tasks : ChildError(t)
    \/ \E t \in Tasks : ChildCloseAfterError(t, Enoent)
    \/ \E r \in ReqIds : AbortRequest(r)

SpecRace == InitRace /\ [][NextRace]_vars

\* ------------------------------------------- a CLI that reports errors
\* The CLI writes error events, one of them with an empty error string,
\* and a text event.
ErrorWrites ==
    {JsonText(e) \o <<NL>> : e \in ErrorEvents \cup {SilentError}}
        \cup RaceWrites

InitErrors ==
    /\ HandlersIdle({"t1"}, "off")
    /\ ServerIdle(FALSE)
    /\ PureIdle(NoChatRequest, NoFileQuery)

NextErrors ==
    \/ \E t \in Tasks, s \in RequestSids, th \in Throws :
           ChatRequest(t, s, th)
    \/ \E t \in Tasks, w \in ErrorWrites : CliWrite(t, w)
    \/ \E t \in Tasks : StdoutData(t)
    \/ \E t \in Tasks, x \in StderrTexts : StderrData(t, x)
    \/ \E t \in Tasks, c \in ExitCodes \cup {Null} : ChildClose(t, c)
    \/ \E t \in Tasks : ChildError(t)
    \/ \E t \in Tasks : ChildCloseAfterError(t, Enoent)
    \/ \E r \in ReqIds : AbortRequest(r)

SpecErrors == InitErrors /\ [][NextErrors]_vars

\* ------------------------------ node.ts: the channel of a command stream
\* The queue, the waiters and ended of one runCommandStream call (node.ts
\* 127-129) with a consumer that calls next() when it likes, also before
\* an earlier call has resolved.  A read resolves with a chunk or with
\* done; via tells who resolved it: push, next from the queue, finish, or
\* next on an ended stream.

\* Bounds: the chunks pushed and the next() calls of one stream.
MaxPushes == 2
MaxReads == 4

ChannelChunks ==
    {[source |-> "stdout", text |-> <<G, NL>>],
     [source |-> "stderr", text |-> <<SP>>]}

Resolved(item, done, via) == [value |-> item, done |-> done, via |-> via]

\* `undefined as unknown as CommandStreamChunk`
NoChunk == [source |-> "", text |-> <<>>]

\* The next() calls made on the stream of task t so far.
Issued(t) == Len(reads[t]) + waiters[t]

\* What was pushed so far: delivered or queued.
Pushed(t) ==
    Cardinality({i \in DOMAIN reads[t] : ~reads[t][i].done}) + Len(queue[t])

\* Mutant of push: the chunk is queued though a reader waits.
push_AlwaysQueues(t, item) ==
    /\ Pushed(t) < MaxPushes
    /\ queue' = [queue EXCEPT ![t] = Append(@, item)]
    /\ UNCHANGED <<waiters, reads, ended>>

\* push (node.ts 131-138).
push(t, item) ==
    /\ Pushed(t) < MaxPushes
    /\ IF waiters[t] > 0
       THEN /\ waiters' = [waiters EXCEPT ![t] = @ - 1]
            /\ reads' = [reads EXCEPT ![t] =
                             Append(@, Resolved(item, FALSE, "push"))]
            /\ UNCHANGED queue
       ELSE /\ queue' = [queue EXCEPT ![t] = Append(@, item)]
            /\ UNCHANGED <<waiters, reads>>
    /\ UNCHANGED ended

\* finish (node.ts 140-146): every waiting reader gets done.
finish(t) ==
    /\ ended' = [ended EXCEPT ![t] = TRUE]
    /\ waiters' = [waiters EXCEPT ![t] = 0]
    /\ reads' = [reads EXCEPT ![t] =
                     @ \o [i \in 1..waiters[t] |->
                               Resolved(NoChunk, TRUE, "finish")]]
    /\ UNCHANGED queue

\* next (node.ts 177-187).
next(t) ==
    /\ Issued(t) < MaxReads
    /\ IF queue[t] # <<>>
       THEN /\ queue' = [queue EXCEPT ![t] = Tail(@)]
            /\ reads' = [reads EXCEPT ![t] =
                             Append(@, Resolved(Head(queue[t]), FALSE,
                                                "queue"))]
            /\ UNCHANGED waiters
       ELSE IF ended[t]
       THEN /\ reads' = [reads EXCEPT ![t] =
                             Append(@, Resolved(NoChunk, TRUE, "ended"))]
            /\ UNCHANGED <<queue, waiters>>
       ELSE /\ waiters' = [waiters EXCEPT ![t] = @ + 1]
            /\ UNCHANGED <<queue, reads>>
    /\ UNCHANGED ended

\* The rest of the state, which the channel does not touch.
ChannelOnly ==
    /\ UNCHANGED <<child, signalled, listenerKills, callbackKills, pipe,
                   exit, budget>>
    /\ UNCHANGED <<chatVars, exportVars>>
    /\ UNCHANGED <<serverVars, argsVars, fileVars, listVars, nameVars>>

\* A 'data' event of the child's stdout or stderr (node.ts 148-154); the
\* events come before 'close'.
DataEvent(t, item) == ~ended[t] /\ push(t, item) /\ ChannelOnly

\* The 'close' or the 'error' event of the child, the one after the
\* other for a child that could not be launched (node.ts 156-165).
EndEvent(t) == finish(t) /\ ChannelOnly

\* The consumer calls next() on the iterator.
Read(t) == next(t) /\ ChannelOnly

InitChannel ==
    /\ HandlersIdle({}, "off")
    /\ ServerIdle(FALSE)
    /\ PureIdle(NoChatRequest, NoFileQuery)

NextChannel ==
    \/ \E item \in ChannelChunks : DataEvent("t1", item)
    \/ EndEvent("t1")
    \/ Read("t1")

SpecChannel == InitChannel /\ [][NextChannel]_vars

\* ------------------------------------- deno.ts: the command stream on Deno
\* runCommandStream of the Deno runtime (deno.ts 88-172) has the queue, the
\* waiters and push/finish/next of the Node runtime; what differs is where
\* the chunks and the completion come from.  Two pump tasks read the pipes
\* (128-137) and the exit promise is proc.status.then(finish) (139-142):
\* the status of the process resolves when the process has exited, whether
\* or not the pumps have read what it wrote.

\* The exit code Deno reports for a process ended by SIGTERM.
Sigterm == 143

\* One reader.read() of the stdout pump resolves with some first n symbols
\* of the pipe and the pump pushes them (130-132); the pipe of a process
\* that has exited can still be read.
PumpRead(t) ==
    /\ Live(t) \/ child[t] = "exited"
    /\ \E n \in 1..Len(pipe[t]) :
           /\ PushChunk(t, [source |-> "stdout",
                            text |-> SubSeq(pipe[t], 1, n)])
           /\ pipe' = [pipe EXCEPT ![t] = SubSeq(@, n + 1, Len(@))]
    /\ UNCHANGED <<pc, req, term, registry, aborted, abortResp>>
    /\ UNCHANGED <<child, signalled, listenerKills, callbackKills, ended,
                   exit, budget>>
    /\ UNCHANGED <<exportVars, otherVars>>

\* proc.status resolves with the exit code (139-142): finish, and the chat
\* task's continuation.
StatusResolved(t, code) ==
    /\ Live(t)
    /\ code = Sigterm => signalled[t]
    /\ FinishAndResume(t, code)
    /\ child' = [child EXCEPT ![t] = "exited"]
    /\ UNCHANGED <<req, aborted, abortResp, signalled, listenerKills,
                   callbackKills, pipe, queue, budget>>
    /\ UNCHANGED <<exportVars, otherVars>>

InitDeno ==
    /\ HandlersIdle({"t1"}, "off")
    /\ ServerIdle(FALSE)
    /\ PureIdle(NoChatRequest, NoFileQuery)

NextDeno ==
    \/ \E t \in Tasks, s \in RequestSids, th \in Throws :
           ChatRequest(t, s, th)
    \/ \E t \in Tasks, w \in RaceWrites : CliWrite(t, w)
    \/ \E t \in Tasks : PumpRead(t)
    \/ \E t \in Tasks, x \in StderrTexts : StderrData(t, x)
    \/ \E t \in Tasks, c \in ExitCodes \cup {Sigterm} : StatusResolved(t, c)
    \/ \E r \in ReqIds : AbortRequest(r)

SpecDeno == InitDeno /\ [][NextDeno]_vars

\* ---------------------------------------------- server.ts: the server bridge
\* Every await of the bridge ends a step: the fetch of isHealthy, and the
\* starter promise a caller waits for.  A caller is a request handler of
\* the providers routes; a proxy call is an ensure call followed by a fetch.

\* The call of caller c has ended with a result.
Returned(c, ok, result) ==
    [caller EXCEPT ![c].pc = "done", ![c].ok = ok, ![c].result = result]

\* ensureOpencodeServer up to the await (69-71): isHealthy is fetching.
EnsureCall(c) ==
    /\ caller[c].pc = "idle"
    /\ caller' = [caller EXCEPT ![c].op = "ensure", ![c].pc = "health"]
    /\ UNCHANGED <<external, healthy, process, starting, start, spawns,
                   serverKills, alive, killed, serving>>
    /\ UNCHANGED handlerVars

\* startServer up to its await (44-61), called for caller c: the server
\* process is spawned and remembered, waitForHealth begins to poll; then
\* ensureOpencodeServer stores the starter promise (79-83).
startServer(c, ok) ==
    LET s == spawns + 1
    IN /\ spawns' = s
       /\ process' = s
       /\ start' = [start EXCEPT ![s] = "polling"]
       /\ starting' = s
       /\ alive' = alive \cup {s}
       /\ caller' = [caller EXCEPT ![c].pc = "awaiting", ![c].ok = ok,
                                   ![c].awaits = s]

\* Mutant of ensureOpencodeServer: an external server is started like an
\* owned one.
ensureOpencodeServer_NoExternalCheck(c, ok) ==
    IF ok
    THEN /\ caller' = Returned(c, ok, "url")
         /\ UNCHANGED <<process, starting, start, spawns, alive>>
    ELSE IF starting # NoStart
    THEN /\ caller' = [caller EXCEPT ![c].pc = "awaiting", ![c].ok = ok,
                                     ![c].awaits = starting]
         /\ UNCHANGED <<process, starting, start, spawns, alive>>
    ELSE startServer(c, ok)

\* ensureOpencodeServer after the await (71-83); ok is what isHealthy
\* answered.
ensureOpencodeServer(c, ok) ==
    IF ok
    THEN /\ caller' = Returned(c, ok, "url")
         /\ UNCHANGED <<process, starting, start, spawns, alive>>
    ELSE IF external
    THEN /\ caller' = Returned(c, ok, "error")
         /\ UNCHANGED <<process, starting, start, spawns, alive>>
    ELSE IF starting # NoStart
    THEN /\ caller' = [caller EXCEPT ![c].pc = "awaiting", ![c].ok = ok,
                                     ![c].awaits = starting]
         /\ UNCHANGED <<process, starting, start, spawns, alive>>
    ELSE startServer(c, ok)

\* The health fetch of caller c's ensure call answers.
EnsureHealth(c) ==
    /\ caller[c].pc = "health"
    /\ (~healthy /\ starting = NoStart) => spawns < MaxStarts
    /\ ensureOpencodeServer(c, healthy)
    /\ UNCHANGED <<external, healthy, serverKills, killed, serving>>
    /\ UNCHANGED handlerVars

\* The callers waiting for start s get its outcome.
Settled(s, result) ==
    [c \in Callers |->
        IF caller[c].pc = "awaiting" /\ caller[c].awaits = s
        THEN [caller[c] EXCEPT !.pc = "done", !.result = result]
        ELSE caller[c]]

\* waitForHealth of start s sees the server healthy (35-42, 61-66): the
\* start resolves and the finally callback clears state.starting (79-81).
PollHealthy(s) ==
    /\ start[s] = "polling"
    /\ healthy
    /\ start' = [start EXCEPT ![s] = "resolved"]
    /\ starting' = NoStart
    /\ caller' = Settled(s, "url")
    /\ UNCHANGED <<external, healthy, process, spawns, serverKills, alive,
                   killed, serving>>
    /\ UNCHANGED handlerVars

\* waitForHealth of start s times out (61-65): the process handle is
\* dropped, the start rejects and the finally callback clears
\* state.starting.
PollTimeout(s) ==
    /\ start[s] = "polling"
    /\ ~healthy
    /\ process' = NoStart
    /\ start' = [start EXCEPT ![s] = "rejected"]
    /\ starting' = NoStart
    /\ caller' = Settled(s, "error")
    /\ UNCHANGED <<external, healthy, spawns, serverKills, alive, killed,
                   serving>>
    /\ UNCHANGED handlerVars

\* A health fetch of start s gets no answer (26-33: fetch is given no
\* time limit) and is still pending when START_TIMEOUT_MS have passed
\* since the start began; the loop of waitForHealth is at its await (38).
FetchStalls(s) ==
    /\ start[s] = "polling"
    /\ ~healthy
    /\ start' = [start EXCEPT ![s] = "overdue"]
    /\ UNCHANGED <<external, healthy, process, starting, caller, spawns,
                   serverKills, alive, killed, serving>>
    /\ UNCHANGED handlerVars

\* The pending fetch of an overdue start s settles at last: with the
\* server healthy the start resolves (38, 66); otherwise the loop ends
\* on its time condition (37, 41) and the start rejects (62-65).  The
\* finally callback clears state.starting (79-81).
FetchSettles(s) ==
    /\ start[s] = "overdue"
    /\ start' = [start EXCEPT ![s] = IF healthy THEN "resolved"
                                      ELSE "rejected"]
    /\ process' = IF healthy THEN process ELSE NoStart
    /\ starting' = NoStart
    /\ caller' = Settled(s, IF healthy THEN "url" ELSE "error")
    /\ UNCHANGED <<external, healthy, spawns, serverKills, alive, killed,
                   serving>>
    /\ UNCHANGED handlerVars

\* restartOpencodeServer up to the await of its ensure call (86-99).
RestartCall(c) ==
    /\ caller[c].pc = "idle"
    /\ IF external
       THEN /\ caller' = [caller EXCEPT ![c].op = "restart", ![c].pc = "done"]
            /\ UNCHANGED <<process, starting, serverKills, killed>>
       ELSE /\ serverKills' =
                   IF process # NoStart THEN serverKills + 1 ELSE serverKills
            /\ killed' =
                   IF process # NoStart THEN killed \cup {process} ELSE killed
            /\ process' = NoStart
            /\ starting' = NoStart
            /\ caller' = [caller EXCEPT ![c].op = "restart",
                                        ![c].pc = "health"]
    /\ UNCHANGED <<external, healthy, start, spawns, alive, serving>>
    /\ UNCHANGED handlerVars

\* The request handler of caller c answers its client.
CallReturn(c) ==
    /\ caller[c].pc = "done"
    /\ caller' = [caller EXCEPT ![c] = IdleCaller]
    /\ UNCHANGED <<external, healthy, process, starting, start, spawns,
                   serverKills, alive, killed, serving>>
    /\ UNCHANGED handlerVars

\* The processes the backend spawned that may begin to answer: running,
\* and not signalled (a signalled process that already answers goes on
\* answering until it ends).
Upcoming == alive \ killed

\* The server at the URL comes up or goes away.  The server that comes up
\* is one of the upcoming processes; with none it is a server started by
\* other means.
HealthChange ==
    /\ healthy' = ~healthy
    /\ IF healthy THEN serving' = NoStart
       ELSE \E p \in (IF Upcoming = {} THEN {NoStart} ELSE Upcoming) :
               serving' = p
    /\ UNCHANGED <<external, process, starting, start, caller, spawns,
                   serverKills, alive, killed>>
    /\ UNCHANGED handlerVars

\* The server process of start s ends: by the signal kill() sent it
\* (node.ts 194, the process is not waited for) or by itself.
ServerExit(s) ==
    /\ s \in alive
    /\ alive' = alive \ {s}
    /\ healthy' = IF serving = s THEN FALSE ELSE healthy
    /\ serving' = IF serving = s THEN NoStart ELSE serving
    /\ UNCHANGED <<external, process, starting, start, caller, spawns,
                   serverKills, killed>>
    /\ UNCHANGED handlerVars

\* OPENCODE_SERVER_URL is set (an external server) or not (17-24).
InitServer ==
    /\ HandlersIdle({}, "off")
    /\ \E isExternal \in BOOLEAN : ServerIdle(isExternal)
    /\ PureIdle(NoChatRequest, NoFileQuery)

NextServer ==
    \/ \E c \in Callers : EnsureCall(c)
    \/ \E c \in Callers : EnsureHealth(c)
    \/ \E s \in StartIds : PollHealthy(s)
    \/ \E s \in StartIds : PollTimeout(s)
    \/ \E s \in StartIds : FetchStalls(s)
    \/ \E s \in StartIds : FetchSettles(s)
    \/ \E c \in Callers : RestartCall(c)
    \/ \E c \in Callers : CallReturn(c)
    \/ HealthChange
    \/ \E s \in StartIds : ServerExit(s)

SpecServer == InitServer /\ [][NextServer]_vars

\* ------------------------------------ chat.ts: the invocation of the CLI
\* ChatRequest.permissionMode (shared/types.ts 13); NoMode is undefined.
Modes == {"default", "plan", "acceptEdits"}
NoMode == ""

\* The tools the permission policy names (chat.ts 23-41).
PolicyTools ==
    {"read", "edit", "glob", "grep", "list", "bash", "task",
     "external_directory", "todowrite", "todoread", "question", "webfetch",
     "websearch", "codesearch", "lsp", "doom_loop", "skill"}

\* The policies, as the objects whose JSON text is put in the environment.
PERMISSION_ALLOW_ALL ==
    [tool \in PolicyTools |-> IF tool = "question" THEN "deny" ELSE "allow"]

PERMISSION_DENY_ALL == [tool \in {"*"} |-> "deny"]

\* Mutant of getPermissionEnv: only plan denies.
getPermissionEnv_DefaultAllows(mode) ==
    IF mode = "plan" THEN PERMISSION_DENY_ALL ELSE PERMISSION_ALLOW_ALL

getPermissionEnv(mode) ==
    IF mode = "plan" \/ mode = "default" THEN PERMISSION_DENY_ALL
    ELSE PERMISSION_ALLOW_ALL

getAgentName(mode) == IF mode = "acceptEdits" THEN "build" ELSE "plan"

\* The permission mode the init message echoes (chat.ts 168):
\* `chatRequest.permissionMode ?? "default"`.
EchoedMode(request) ==
    IF request.permissionMode = NoMode THEN "default"
    ELSE request.permissionMode

\* The model texts of a request and of the server configuration: absent or
\* empty, blank, a name, a name after a blank.
ModelTexts == {<<>>, <<SP>>, <<W("m")>>, <<SP, W("m")>>}
ConfigModels == {<<>>, <<W("d")>>}

ChatRequests ==
    [permissionMode : Modes \cup {NoMode}, sessionId : RequestSids,
     model : ModelTexts, opencodeModel : ConfigModels]

\* The arguments and the environment of the CLI process (chat.ts 130-145),
\* request.opencodeModel being the model of the server configuration.
BuildInvocation(request) ==
    LET requestedModel == Trim(request.model)
        model == IF requestedModel # <<>> THEN requestedModel
                 ELSE request.opencodeModel
    IN [args |->
            <<[word |-> "run"], [word |-> "--format"], [word |-> "json"]>>
            \o (IF model # <<>>
                THEN <<[word |-> "--model"], [model |-> model]>>
                ELSE <<>>)
            \o (IF request.sessionId # NoSid
                THEN <<[word |-> "--session"],
                       [session |-> request.sessionId]>>
                ELSE <<>>)
            \o <<[word |-> "--agent"],
                  [agent |-> getAgentName(request.permissionMode)],
                  [message |-> "message"]>>,
        env |-> <<[OPENCODE_PERMISSION |->
                       getPermissionEnv(request.permissionMode),
                   OPENCODE_CLIENT |-> "cli"]>>]

\* handleChatRequest builds the invocation of the CLI for a request.
BuildArgs ==
    /\ argResult = NoArgs
    /\ argResult' = BuildInvocation(argRequest)
    /\ UNCHANGED <<argRequest, fileVars, listVars, nameVars, serverVars>>
    /\ UNCHANGED readVars
    /\ UNCHANGED <<chatVars, procVars, exportVars>>

InitArgs ==
    /\ HandlersIdle({}, "off")
    /\ ServerIdle(FALSE)
    /\ \E request \in ChatRequests : PureIdle(request, NoFileQuery)

NextArgs == BuildArgs

SpecArgs == InitArgs /\ [][NextArgs]_vars

\* ------------------------------------------------ files.ts: the file routes
\* A path is a text of characters.  Bound: the length of a requested path.
MaxPathLen == 5
PathChars == {"/", ".", "p", "2", " ", "'"}

\* The requested paths: every text of at most MaxPathLen characters, and
\* two longer ones, a file URL and a path with a drive letter.
RequestedPaths ==
    UNION {[1..n -> PathChars] : n \in 0..MaxPathLen}
        \cup {<<"f", "i", "l", "e", ":", "/", "/", "/", "p", "/", "x">>,
              <<"/", "C", ":", "/", "p">>}

\* The working directories of a query: none, /p, /p/ and the relative p.
WorkingDirectories == {<<>>, <<"/", "p">>, <<"/", "p", "/">>, <<"p">>}

\* process.cwd() of the backend, against which a relative path resolves.
Cwd == <<"/", "c">>

StartsWith(s, prefix) ==
    Len(prefix) <= Len(s) /\ SubSeq(s, 1, Len(prefix)) = prefix

Drop(s, n) == SubSeq(s, n + 1, Len(s))

\* String.prototype.trim on a path.
RECURSIVE TrimPath(_)
TrimPath(s) ==
    IF s # <<>> /\ Head(s) = " " THEN TrimPath(Tail(s))
    ELSE IF s # <<>> /\ s[Len(s)] = " "
    THEN TrimPath(SubSeq(s, 1, Len(s) - 1))
    ELSE s

\* replace(/^["']+|["']+$/g, "")
RECURSIVE StripQuotes(_)
StripQuotes(s) ==
    IF s # <<>> /\ Head(s) = "'" THEN StripQuotes(Tail(s))
    ELSE IF s # <<>> /\ s[Len(s)] = "'"
    THEN StripQuotes(SubSeq(s, 1, Len(s) - 1))
    ELSE s

Letters == {"p", "C", "f", "i", "l", "e", "x"}

\* normalizeRequestedPath (files.ts 248-255): trim, drop a leading file://,
\* drop the slash before a drive letter, strip quotes at both ends (the
\* model has no NUL character).
normalizeRequestedPath(requestedPath) ==
    LET trimmed == TrimPath(requestedPath)
        noScheme == IF StartsWith(trimmed, <<"f", "i", "l", "e", ":", "/", "/">>)
                    THEN Drop(trimmed, 7)
                    ELSE trimmed
        noSlash == IF /\ Len(noScheme) >= 3
                      /\ noScheme[1] = "/"
                      /\ noScheme[2] \in Letters
                      /\ noScheme[3] = ":"
                   THEN Tail(noScheme)
                   ELSE noScheme
    IN StripQuotes(noSlash)

\* The segments of a path: the texts between its slashes.
RECURSIVE SegmentsFrom(_, _, _)
SegmentsFrom(s, cur, acc) ==
    IF s = <<>> THEN Append(acc, cur)
    ELSE IF Head(s) = "/" THEN SegmentsFrom(Tail(s), <<>>, Append(acc, cur))
    ELSE SegmentsFrom(Tail(s), Append(cur, Head(s)), acc)

Segments(s) == SegmentsFrom(s, <<>>, <<>>)

\* The normalisation of path.resolve on the segments of an absolute path:
\* empty segments and "." go, ".." removes the segment before it.
RECURSIVE NormalizeSegments(_, _)
NormalizeSegments(segs, acc) ==
    IF segs = <<>> THEN acc
    ELSE LET seg == Head(segs)
         IN IF seg = <<>> \/ seg = <<".">>
            THEN NormalizeSegments(Tail(segs), acc)
            ELSE IF seg = <<".", ".">>
            THEN NormalizeSegments(Tail(segs),
                     IF acc = <<>> THEN acc
                     ELSE SubSeq(acc, 1, Len(acc) - 1))
            ELSE NormalizeSegments(Tail(segs), Append(acc, seg))

RECURSIVE Render(_)
Render(segs) ==
    IF segs = <<>> THEN <<>>
    ELSE <<"/">> \o Head(segs) \o Render(Tail(segs))

\* path.resolve(from, to) of node:path on a POSIX system: the rightmost
\* absolute argument and what follows it, after the working directory of
\* the process when no argument is absolute.
resolve(from, to) ==
    LET joined == IF StartsWith(to, <<"/">>) THEN to
                  ELSE IF StartsWith(from, <<"/">>) THEN from \o <<"/">> \o to
                  ELSE Cwd \o <<"/">> \o from \o <<"/">> \o to
        rendered == Render(NormalizeSegments(Segments(joined), <<>>))
    IN IF rendered = <<>> THEN <<"/">> ELSE rendered

\* The null that resolveFilePath returns.
NoPath == <<>>

\* resolveFilePath (files.ts 214-246).
resolveFilePath(requestedPath, workingDirectory) ==
    IF workingDirectory = <<>> THEN NoPath
    ELSE LET cleanedPath == normalizeRequestedPath(requestedPath)
             resolvedPath == resolve(workingDirectory, cleanedPath)
             normalizedWorking == resolve(workingDirectory, <<>>)
             normalizedResolved == resolve(resolvedPath, <<>>)
         IN IF ~StartsWith(normalizedResolved, normalizedWorking)
            THEN NoPath
            ELSE normalizedResolved

\* What the file system holds at a path.
FsEntries == {"nothing", "directory", "largeFile", "file"}

\* GET /api/file (files.ts 266-380): handleFileRequest, entry being what
\* the file system holds at the resolved path.
FileRequest(entry) ==
    /\ fileResponse = NoFileResponse
    /\ LET requestedPath == fileQuery.path
           workingDirectory == fileQuery.workingDirectory
           resolvedPath == resolveFilePath(requestedPath, workingDirectory)
       IN fileResponse' =
              IF requestedPath = <<>> \/ workingDirectory = <<>>
              THEN [status |-> 400, path |-> NoPath]
              ELSE IF resolvedPath = NoPath
              THEN [status |-> 403, path |-> NoPath]
              ELSE [status |-> CASE entry = "nothing" -> 404
                                 [] entry = "directory" -> 400
                                 [] entry = "largeFile" -> 413
                                 [] OTHER -> 200,
                    path |-> resolvedPath]
    /\ UNCHANGED <<fileQuery, argsVars, listVars, nameVars, serverVars>>
    /\ UNCHANGED readVars
    /\ UNCHANGED <<chatVars, procVars, exportVars>>

InitFiles ==
    /\ HandlersIdle({}, "off")
    /\ ServerIdle(FALSE)
    /\ \E path \in RequestedPaths, dir \in WorkingDirectories :
           PureIdle(NoChatRequest,
                    [path |-> path, workingDirectory |-> dir])

NextFiles == \E entry \in FsEntries : FileRequest(entry)

SpecFiles == InitFiles /\ [][NextFiles]_vars

\* ------------------------------------------- histories.ts: the history list
\* The text the CLI's `session list --format json` writes is a text of
\* symbols: brackets, braces, commas, white space, the members of a session
\* object (Members(r), the text "id":..,"updated":.. of record r, which
\* holds no bracket and no comma before a bracket), the key of a wrapping
\* object ("sessions":), a number, and G, text that is not JSON.
LB == [k |-> "["]
RB == [k |-> "]"]
LC == [k |-> "{"]
RC == [k |-> "}"]
CM == [k |-> ","]
Num == [k |-> "num"]
SessionsKey == [k |-> "sessionsKey"]
Members(r) == [k |-> "members", r |-> r]

\* Number(undefined) and the time of an Invalid Date.
NaN == -1

\* A directory is a path (a text of characters), <<>> when the session has
\* none.  The sessions the CLI lists: a, b (updated later, elsewhere), one
\* without id and one without times.
SessionRecords ==
    {[id |-> "a", updated |-> 2, created |-> 1, directory |-> <<"/", "p">>],
     [id |-> "b", updated |-> 3, created |-> 1, directory |-> <<"/", "q">>],
     [id |-> "", updated |-> 4, created |-> 1, directory |-> <<>>],
     [id |-> "c", updated |-> NaN, created |-> NaN, directory |-> <<>>]}

\* A session object without members: {}.
NoRecord == [id |-> "", updated |-> NaN, created |-> NaN, directory |-> <<>>]

\* Bound: the number of sessions in a list.
MaxSessions == 2

\* The JSON text of an array of session objects; comma tells that a comma
\* follows the last member of every object and the last element.
RECURSIVE ElementsText(_, _)
ElementsText(records, comma) ==
    IF records = <<>> THEN <<>>
    ELSE <<LC, Members(Head(records))>>
             \o (IF comma THEN <<CM, SP>> ELSE <<>>) \o <<RC>>
             \o (IF Len(records) > 1 \/ comma THEN <<CM>> ELSE <<>>)
             \o ElementsText(Tail(records), comma)

ArrayText(records, comma) == <<LB>> \o ElementsText(records, comma) \o <<RB>>

\* --- JSON.parse on such a text.  JSON white space is blank and newline
\* (not the byte-order mark).  A parser answers [ok, v, rest]: whether a
\* value was read, the value, and the text after it.
RECURSIVE SkipSpace(_)
SkipSpace(s) ==
    IF s # <<>> /\ (Head(s) = SP \/ Head(s) = NL) THEN SkipSpace(Tail(s))
    ELSE s

Undefined == [t |-> "undefined"]
ParseFail == [ok |-> FALSE, v |-> Undefined, rest |-> <<>>]
Parsed(v, rest) == [ok |-> TRUE, v |-> v, rest |-> rest]

RECURSIVE ParseValue(_)
RECURSIVE ParseElements(_, _, _)
RECURSIVE ParseObject(_)

ParseValue(s) ==
    LET t == SkipSpace(s)
    IN IF t = <<>> THEN ParseFail
       ELSE IF Head(t) = Num THEN Parsed([t |-> "number"], Tail(t))
       ELSE IF Head(t) = LB THEN ParseElements(Tail(t), <<>>, TRUE)
       ELSE IF Head(t) = LC THEN ParseObject(Tail(t))
       ELSE ParseFail

\* The elements of an array after "[" or after a comma; first tells that
\* the array may end here.
ParseElements(s, acc, first) ==
    LET t == SkipSpace(s)
    IN IF t = <<>> THEN ParseFail
       ELSE IF first /\ Head(t) = RB
       THEN Parsed([t |-> "array", items |-> acc], Tail(t))
       ELSE LET r == ParseValue(t)
                u == SkipSpace(r.rest)
            IN IF ~r.ok \/ u = <<>> THEN ParseFail
               ELSE IF Head(u) = CM
               THEN ParseElements(Tail(u), Append(acc, r.v), FALSE)
               ELSE IF Head(u) = RB
               THEN Parsed([t |-> "array", items |-> Append(acc, r.v)],
                           Tail(u))
               ELSE ParseFail

\* An object after "{": no member, the members of a session, or the one
\* member "sessions".
ParseObject(s) ==
    LET t == SkipSpace(s)
    IN IF t = <<>> THEN ParseFail
       ELSE IF Head(t) = RC
       THEN Parsed([t |-> "object", r |-> NoRecord, sessions |-> Undefined],
                   Tail(t))
       ELSE IF Head(t).k = "members"
       THEN LET u == SkipSpace(Tail(t))
            IN IF u # <<>> /\ Head(u) = RC
               THEN Parsed([t |-> "object", r |-> Head(t).r,
                            sessions |-> Undefined], Tail(u))
               ELSE ParseFail
       ELSE IF Head(t) = SessionsKey
       THEN LET r == ParseValue(Tail(t))
                u == SkipSpace(r.rest)
            IN IF r.ok /\ u # <<>> /\ Head(u) = RC
               THEN Parsed([t |-> "object", r |-> NoRecord,
                            sessions |-> r.v], Tail(u))
               ELSE ParseFail
       ELSE ParseFail

\* JSON.parse: one value and nothing but white space around it.
JsonParse(text) ==
    LET r == ParseValue(text)
    IN IF r.ok /\ SkipSpace(r.rest) = <<>> THEN r ELSE ParseFail

\* --- the clean-up of the output (histories.ts 50-60)
\* indexOf and lastIndexOf of a symbol, 0 when the text has none.
IndexOf(s, c) ==
    IF \E i \in DOMAIN s : s[i] = c
    THEN CHOOSE i \in DOMAIN s : s[i] = c /\ \A j \in 1..(i - 1) : s[j] # c
    ELSE 0

LastIndexOf(s, c) ==
    IF \E i \in DOMAIN s : s[i] = c
    THEN CHOOSE i \in DOMAIN s :
             s[i] = c /\ \A j \in (i + 1)..Len(s) : s[j] # c
    ELSE 0

\* trim, drop a byte-order mark at the start, keep the text from the first
\* "[" to the last "]" when there is one after the other.
cleanOutput(stdout) ==
    LET t == Trim(stdout)
        trimmed == IF t # <<>> /\ Head(t) = BOM THEN Tail(t) ELSE t
        firstBracket == IndexOf(trimmed, LB)
        lastBracket == LastIndexOf(trimmed, RB)
    IN IF firstBracket # 0 /\ lastBracket # 0 /\ lastBracket > firstBracket
       THEN SubSeq(trimmed, firstBracket, lastBracket)
       ELSE trimmed

\* replace(/,\s*([}\]])/g, "$1"): a comma followed by white space and a
\* closing bracket or brace goes (the white space with it).
RECURSIVE StripTrailingCommas(_)
StripTrailingCommas(s) ==
    IF s = <<>> THEN <<>>
    ELSE IF Head(s) = CM
    THEN LET after == TrimStart(Tail(s))
         IN IF after # <<>> /\ (Head(after) = RB \/ Head(after) = RC)
            THEN <<Head(after)>> \o StripTrailingCommas(Tail(after))
            ELSE <<CM>> \o StripTrailingCommas(Tail(s))
    ELSE <<Head(s)>> \o StripTrailingCommas(Tail(s))

\* --- the list of sessions (histories.ts 62-83)
NoError == ""

\* Mutant of parse: a text that does not parse throws.
parse_NoCatch(parsedOutput) ==
    LET p == JsonParse(parsedOutput)
    IN IF p.ok
       THEN [data |-> IF p.v.t = "array" THEN p.v.items
                      ELSE IF p.v.t = "object" /\ p.v.sessions.t = "array"
                      THEN p.v.sessions.items
                      ELSE <<>>,
             error |-> NoError, type |-> p.v.t, threw |-> FALSE]
       ELSE [data |-> <<>>, error |-> "SyntaxError", type |-> "error",
             threw |-> TRUE]

\* parse: the array, or the array under "sessions", or nothing; a text that
\* does not parse gives no data and the message of the error.
parse(parsedOutput) ==
    LET p == JsonParse(parsedOutput)
    IN IF p.ok
       THEN [data |-> IF p.v.t = "array" THEN p.v.items
                      ELSE IF p.v.t = "object" /\ p.v.sessions.t = "array"
                      THEN p.v.sessions.items
                      ELSE <<>>,
             error |-> NoError, type |-> p.v.t, threw |-> FALSE]
       ELSE [data |-> <<>>, error |-> "SyntaxError", type |-> "error",
             threw |-> FALSE]

\* --- mapping, filtering and sorting (histories.ts 21-25, 87-124)
\* `key in session` throws for an element that is not an object.
MapThrows(sessions) == \E i \in DOMAIN sessions : sessions[i].t = "number"

\* The mapped session: the members of an object, nothing for an array.
Mapped(sessions) ==
    [i \in DOMAIN sessions |->
        IF sessions[i].t = "object" THEN sessions[i].r ELSE NoRecord]

\* normalize: trailing slashes go (the texts hold no backslash, the
\* platform is not Windows).
RECURSIVE normalize(_)
normalize(value) ==
    IF value # <<>> /\ value[Len(value)] = "/"
    THEN normalize(SubSeq(value, 1, Len(value) - 1))
    ELSE value

FilterSeq(s, Keep(_)) ==
    LET F[i \in 0..Len(s)] ==
            IF i = 0 THEN <<>>
            ELSE IF Keep(s[i]) THEN Append(F[i - 1], s[i]) ELSE F[i - 1]
    IN F[Len(s)]

\* `updated || 0`
OrZero(n) == IF n = NaN THEN 0 ELSE n

\* Array.prototype.sort with (a, b) => (b.updated || 0) - (a.updated || 0):
\* stable, latest update first.
RECURSIVE InsertByUpdated(_, _)
InsertByUpdated(sorted, x) ==
    IF sorted = <<>> THEN <<x>>
    ELSE IF OrZero(Head(sorted).updated) >= OrZero(x.updated)
    THEN <<Head(sorted)>> \o InsertByUpdated(Tail(sorted), x)
    ELSE <<x>> \o sorted

RECURSIVE SortByUpdated(_)
SortByUpdated(s) ==
    IF s = <<>> THEN <<>>
    ELSE InsertByUpdated(SortByUpdated(SubSeq(s, 1, Len(s) - 1)), s[Len(s)])

\* new Date(NaN).toISOString() throws a RangeError.
DateThrows(sorted) ==
    \E i \in DOMAIN sorted :
        sorted[i].created = NaN \/ sorted[i].updated = NaN

HardFailure == [status |-> 500, conversations |-> <<>>,
                debug |-> [count |-> 0, parseError |-> NoError,
                           dataLen |-> 0, dataType |-> ""]]

\* handleHistoriesRequest (histories.ts 12-172) on the query path and the
\* result of runCommand; the route always carries the project name.
HistoriesResponse(run) ==
    IF ~run.success \/ Trim(run.stdout) = <<>>
    THEN [status |-> 200, conversations |-> <<>>,
          debug |-> [count |-> 0, parseError |-> NoError, dataLen |-> 0,
                     dataType |-> ""]]
    ELSE LET parsedOutput == StripTrailingCommas(cleanOutput(run.stdout))
             p == parse(parsedOutput)
             sessions == p.data
             mapped == Mapped(sessions)
             target == normalize(run.path)
             hasDirectory ==
                 \E i \in DOMAIN mapped : mapped[i].directory # <<>>
             InTarget(entry) ==
                 entry.directory # <<>>
                     /\ normalize(entry.directory) = target
             HasId(entry) == entry.id # ""
             filtered == IF run.path # <<>> /\ hasDirectory
                         THEN FilterSeq(mapped, InTarget)
                         ELSE mapped
             sorted == SortByUpdated(FilterSeq(filtered, HasId))
         IN IF p.threw \/ MapThrows(sessions) \/ DateThrows(sorted)
            THEN HardFailure
            ELSE [status |-> 200,
                  conversations |->
                      [i \in DOMAIN sorted |->
                          [sessionId |-> sorted[i].id,
                           startTime |-> toIso(sorted[i].created),
                           lastTime |-> toIso(sorted[i].updated)]],
                  debug |-> [count |-> Len(sorted), parseError |-> p.error,
                             dataLen |-> Len(sessions),
                             dataType |-> p.type]]

\* GET /api/projects/:encodedProjectName/histories
HistoriesRequest ==
    /\ historiesResponse = NoHistories
    /\ historiesResponse' = HistoriesResponse(historiesRun)
    /\ UNCHANGED <<historiesRun, argsVars, fileVars, nameVars, serverVars>>
    /\ UNCHANGED readVars
    /\ UNCHANGED <<chatVars, procVars, exportVars>>

\* What precedes and what follows the array in the output: nothing, a
\* byte-order mark, a line of text, a log prefix in brackets, the opening
\* of a wrapping object; a line of text, the closing of a wrapping object,
\* text with a bracket.
LeadingNoise ==
    {<<>>, <<BOM>>, <<G, NL>>, <<LB, G, RB, SP>>, <<LC, SessionsKey>>}
TrailingNoise == {<<>>, <<NL, G>>, <<RC>>, <<SP, G, RB>>}

SessionLists == UNION {[1..n -> SessionRecords] : n \in 0..MaxSessions}

\* The array is kept beside the output that embeds it (it is not program
\* state).  Outputs without an array: text, a cut array, one object, an
\* array of numbers, nothing.
NoArray == <<>>

ListOutputs ==
    {[stdout |-> lead \o ArrayText(l, comma) \o trail,
      array |-> ArrayText(l, FALSE)] :
         lead \in LeadingNoise, trail \in TrailingNoise,
         l \in SessionLists, comma \in BOOLEAN}
    \cup {[stdout |-> text, array |-> NoArray] :
             text \in {<<G>>, <<SP>>, <<LB, Num, RB>>,
                       <<LB, LC, Members(NoRecord)>>,
                       <<LC, Members(NoRecord), RC>>}}

QueryPaths == {<<>>, <<"/", "p", "/">>}

InitHistories ==
    /\ HandlersIdle({}, "off")
    /\ ServerIdle(FALSE)
    /\ argRequest = NoChatRequest /\ argResult = NoArgs
    /\ fileQuery = NoFileQuery /\ fileResponse = NoFileResponse
    /\ NameIdle(<<>>)
    /\ \E o \in ListOutputs, path \in QueryPaths, success \in BOOLEAN :
           ListIdle([path |-> path, success |-> success,
                     stdout |-> o.stdout, array |-> o.array])

NextHistories == HistoriesRequest

SpecHistories == InitHistories /\ [][NextHistories]_vars

\* ------------------------------------- claudeFormat.ts: tool display names
\* Bound: the number of letter groups and separators of a tool name.
MaxNameLen == 3

NameWords == {"web", "fetch", "todo", "write"}

NameItems ==
    {Lo(s) : s \in NameWords} \cup {Cap(s) : s \in NameWords}
        \cup {Up(s) : s \in NameWords} \cup {Underscore, Hyphen}

\* The tool names: every text of at most MaxNameLen items, and three
\* longer or other ones.
ToolNames ==
    UNION {[1..n -> NameItems] : n \in 0..MaxNameLen}
        \cup {<<Lo("apply"), Underscore, Lo("patch")>>,
              <<Lo("constructor")>>,
              <<Underscore, Underscore, Lo("proto"), Underscore, Underscore>>}

\* TOOL_NAME_OVERRIDES (claudeFormat.ts 67-72): its own keys and values.
OverrideKeys ==
    {<<Lo("todo"), Lo("write")>>, <<Lo("todo"), Lo("read")>>,
     <<Lo("apply"), Underscore, Lo("patch")>>, <<Lo("web"), Lo("fetch")>>}

\* The property names an object literal inherits from Object.prototype that
\* are written in lower case, with what they hold (not a string).
InheritedKeys ==
    {<<Lo("constructor")>>,
     <<Underscore, Underscore, Lo("proto"), Underscore, Underscore>>}

NotAString(key) == <<[k |-> "object", of |-> key]>>

TOOL_NAME_OVERRIDES ==
    [key \in OverrideKeys \cup InheritedKeys |->
        IF key \in InheritedKeys THEN NotAString(key)
        ELSE [i \in DOMAIN RemoveSeparators(key) |->
                 Cap(RemoveSeparators(key)[i].s)]]

\* `key in object`: own and inherited properties.
In(key, object) == key \in DOMAIN object

\* capitalize (claudeFormat.ts 74-77): the first character in upper case.
capitalize(input) ==
    IF input = <<>> THEN input
    ELSE <<IF Head(input).form = "lower" THEN Cap(Head(input).s)
           ELSE Head(input)>> \o Tail(input)

\* tool.split(/[_-]/): the texts between the separators.
RECURSIVE SplitName(_, _, _)
SplitName(name, cur, acc) ==
    IF name = <<>> THEN Append(acc, cur)
    ELSE IF Head(name).k = "sep"
    THEN SplitName(Tail(name), <<>>, Append(acc, cur))
    ELSE SplitName(Tail(name), Append(cur, Head(name)), acc)

RECURSIVE JoinCapitalized(_)
JoinCapitalized(parts) ==
    IF parts = <<>> THEN <<>>
    ELSE capitalize(Head(parts)) \o JoinCapitalized(Tail(parts))

\* toClaudeToolName (claudeFormat.ts 79-86).
toClaudeToolName(tool) ==
    LET normalized == ToLowerCase(tool)
    IN IF In(normalized, TOOL_NAME_OVERRIDES)
       THEN TOOL_NAME_OVERRIDES[normalized]
       ELSE JoinCapitalized(SplitName(tool, <<>>, <<>>))

\* createToolUseItem (claudeFormat.ts 176-183) names the item of a part.
NameTool ==
    /\ ~claudeName.converted
    /\ claudeName' = [converted |-> TRUE, name |-> toClaudeToolName(toolName)]
    /\ UNCHANGED <<toolName, argsVars, fileVars, listVars, serverVars>>
    /\ UNCHANGED readVars
    /\ UNCHANGED <<chatVars, procVars, exportVars>>

InitNames ==
    /\ HandlersIdle({}, "off")
    /\ ServerIdle(FALSE)
    /\ argRequest = NoChatRequest /\ argResult = NoArgs
    /\ fileQuery = NoFileQuery /\ fileResponse = NoFileResponse
    /\ ListIdle(NoRun)
    /\ \E tool \in ToolNames : NameIdle(tool)

NextNames == NameTool

SpecNames == InitNames /\ [][NextNames]_vars

\* ------------------------------------------------- reading a chat stream
Out(t) == chat[t].out
Handled(t) == chat[t].handled

IsMessage(line, type) == line.type = "claude_json" /\ line.data.type = type

\* The positions of the lines of a given kind in a stream.
MessageLines(o, type) == {i \in DOMAIN o : IsMessage(o[i], type)}
ErrorLines(o) == {i \in DOMAIN o : o[i].type = "error"}
DoneLines(o) == {i \in DOMAIN o : o[i].type = "done"}

\* A message whose content carries an item of a given type.
Carries(message, itemType) ==
    \E j \in DOMAIN message.content : message.content[j].type = itemType

\* The lines handleEvent wrote for the k-th handled event, the init line
\* of the stream left out.
Written(t, k) ==
    LET h == Handled(t)[k]
        lines == SubSeq(Out(t), h.before + 1, h.after)
    IN IF lines # <<>> /\ IsMessage(lines[1], "system") THEN Tail(lines)
       ELSE lines

Terminal(status) == status = "completed" \/ status = "error"

\* --------------------------------------------- reading an export response
\* The positions <<i, j>> of the content items of a given type with a given
\* id field in a list of messages.
ToolUseItems(messages, id) ==
    {ij \in UNION {{<<i, j>> : j \in DOMAIN messages[i].content} :
                       i \in DOMAIN messages} :
        LET item == messages[ij[1]].content[ij[2]]
        IN item.type = "tool_use" /\ item.id = id}

ToolResultItems(messages, id) ==
    {ij \in UNION {{<<i, j>> : j \in DOMAIN messages[i].content} :
                       i \in DOMAIN messages} :
        LET item == messages[ij[1]].content[ij[2]]
        IN item.type = "tool_result" /\ item.tool_use_id = id}

\* The positions <<i, j>> of the tool parts of the assistant turns of a
\* session with a given callID and a status in a given set.
ToolParts(messages, callID, statuses) ==
    {ij \in UNION {{<<i, j>> : j \in DOMAIN messages[i].parts} :
                       i \in DOMAIN messages} :
        LET part == messages[ij[1]].parts[ij[2]]
        IN /\ messages[ij[1]].role = "assistant"
           /\ part.type = "tool"
           /\ part.callID = callID
           /\ part.status \in statuses}

CallIds == {"c1", "c2"}
Statuses == {"running", "completed", "error"}

\* ------------------------------------------------------------------ claims

\* C1 (as claimed): whichever way a chat request terminates, its stream
\* holds the done line exactly once, as the last line written before the
\* stream is closed.
C1_DoneExactlyOnceLast ==
    \A t \in Tasks :
        pc[t] = "closed" =>
            /\ chat[t].closed
            /\ Cardinality(DoneLines(Out(t))) = 1
            /\ Out(t)[Len(Out(t))] = DoneLine

\* C2: after the stream task of a chat request has terminated, by any path,
\* the registry holds no entry under its requestId, and none of its own.
C2_NoEntryAfterTermination ==
    \A t \in Tasks :
        pc[t] = "closed" =>
            /\ registry[req[t].requestId] = NoTask
            /\ \A r \in ReqIds : registry[r] # t

\* C2 witness: a request has completed normally, without an abort.
C2_Witness ==
    \E t \in Tasks :
        /\ term[t] = "normal" /\ ~aborted[t] /\ exit[t] = 0
        /\ registry[req[t].requestId] = NoTask

\* C3: an abort call for a registered requestId, in one step, sets the
\* request's cancellation signal, invokes its kill callback (once), removes
\* its entry from the registry and answers success.
C3_AbortSignalsKillsRemoves ==
    [][\A r \in ReqIds :
          (AbortRequest(r) /\ registry[r] # NoTask) =>
              LET t == registry[r]
              IN /\ aborted'[t]
                 /\ callbackKills'[t] = callbackKills[t] + 1
                 /\ Live(t) => signalled'[t]
                 /\ registry'[r] = NoTask
                 /\ abortResp' = [requestId |-> r, status |-> 200]]_vars

\* C3 witness: a running request was aborted with success.
C3_Witness ==
    \E t \in Tasks :
        /\ abortResp = [requestId |-> req[t].requestId, status |-> 200]
        /\ aborted[t] /\ signalled[t] /\ callbackKills[t] = 1
        /\ registry[req[t].requestId] = NoTask

\* C4: an abort call for a requestId without a registry entry answers not
\* found, kills nothing and leaves the registry unchanged.
C4_AbortUnknownNotFound ==
    [][\A r \in ReqIds :
          (AbortRequest(r) /\ registry[r] = NoTask) =>
              /\ abortResp' = [requestId |-> r, status |-> 404]
              /\ UNCHANGED <<registry, aborted, signalled, listenerKills,
                             callbackKills, child>>]_vars

\* C4 witness: the second abort call for a request that was aborted.
C4_Witness ==
    \E t \in Tasks :
        /\ aborted[t] /\ callbackKills[t] = 1
        /\ abortResp = [requestId |-> req[t].requestId, status |-> 404]

\* C5: a chat stream holds at most one system/init message.
C5_AtMostOneInit ==
    \A t \in Tasks : Cardinality(MessageLines(Out(t), "system")) <= 1

\* C5 witness: a terminated stream in which two events carried different
\* session ids, with one init message.
C5_Witness ==
    \E t \in Tasks :
        /\ term[t] = "normal"
        /\ \E i, j \in DOMAIN Handled(t) :
               /\ Handled(t)[i].event.sid # NoSid
               /\ Handled(t)[j].event.sid # NoSid
               /\ Handled(t)[i].event.sid # Handled(t)[j].event.sid
        /\ Cardinality(MessageLines(Out(t), "system")) = 1

NoEventSession(t) ==
    \A k \in DOMAIN Handled(t) : Handled(t)[k].event.sid = NoSid

NoInitNoResult(t) ==
    /\ MessageLines(Out(t), "system") = {}
    /\ MessageLines(Out(t), "result") = {}

\* C6 (as claimed): if no CLI event of a chat request carries a session id,
\* its stream holds neither an init nor a result message.
C6_NoEventSessionNoInitResult ==
    \A t \in Tasks : NoEventSession(t) => NoInitNoResult(t)

\* C6 (amended): if no CLI event of a chat request carries a session id and
\* the request itself supplied none, its stream holds neither an init nor a
\* result message.
C6_NoSessionNoInitResult ==
    \A t \in Tasks :
        (req[t].sessionId = NoSid /\ NoEventSession(t)) => NoInitNoResult(t)

\* C6 witness: a request without session id has terminated after an event
\* without session id was handled.
C6_Witness ==
    \E t \in Tasks :
        /\ term[t] = "normal" /\ req[t].sessionId = NoSid
        /\ Handled(t) # <<>> /\ NoEventSession(t)
        /\ NoInitNoResult(t)

\* C7: when the CLI process has exited and a session id is known, the
\* stream holds exactly one result message, after the init message and
\* after every assistant and user message, and immediately before done;
\* when the CLI wrote one text event (a line with a text and a session id)
\* and exited 0 the lines are init, assistant, result, done.
C7_ResultBeforeDone ==
    \A t \in Tasks :
        (term[t] = "normal" /\ chat[t].sessionId # NoSid) =>
            LET o == Out(t)
                n == Len(o)
            IN /\ MessageLines(o, "result") = {n - 1}
               /\ o[n] = DoneLine
               /\ MessageLines(o, "system") # {}
               /\ \A i \in MessageLines(o, "system")
                         \cup MessageLines(o, "assistant")
                         \cup MessageLines(o, "user") : i < n - 1
               /\ ( /\ exit[t] = 0
                    /\ Len(Handled(t)) = 1
                    /\ Handled(t)[1].event.type = "text"
                    /\ Handled(t)[1].event.text # ""
                    /\ Handled(t)[1].resolved # NoSid )
                  => LET h == Handled(t)[1]
                     IN o = << ClaudeJson(createInitMessage(h.resolved)),
                               ClaudeJson(createAssistantMessage(h.resolved,
                                   <<[type |-> "text",
                                      text |-> h.event.text]>>)),
                               ClaudeJson(createResultMessage),
                               DoneLine >>

\* C7 witness: the CLI wrote one text event and exited 0.
C7_Witness ==
    \E t \in Tasks :
        /\ term[t] = "normal" /\ exit[t] = 0 /\ req[t].sessionId = NoSid
        /\ Len(Handled(t)) = 1
        /\ Handled(t)[1].event = Ev("text", "s1", "hi", "", "", "")
        /\ Len(Out(t)) = 4

\* C8: when the CLI process exits with a non-zero code and no structured
\* error event was handled, exactly one error line is written, before done:
\* the trimmed captured stderr when that is not blank, else the generic
\* message with the exit code.
C8_FallbackError ==
    \A t \in Tasks :
        ( /\ term[t] = "normal"
          /\ exit[t] # 0
          /\ \A k \in DOMAIN Handled(t) : Handled(t)[k].event.type # "error" )
        => LET o == Out(t)
           IN /\ Cardinality(ErrorLines(o)) = 1
              /\ o[Len(o)] = DoneLine
              /\ \A i \in ErrorLines(o) :
                     /\ i < Len(o)
                     /\ o[i].error =
                            IF Trim(chat[t].stderrText) # <<>>
                            THEN Trim(chat[t].stderrText)
                            ELSE ExitedWithCode(exit[t])

\* C8 witness: exit code 2 with "boom" on stderr (the error line is the
\* trimmed text), after an event was handled.
C8_Witness ==
    \E t \in Tasks :
        /\ term[t] = "normal" /\ exit[t] = 2
        /\ \E i \in ErrorLines(Out(t)) : Out(t)[i].error = <<W("boom")>>
        /\ chat[t].stderrText = <<W("boom"), NL>>

\* C9 (as claimed): a tool part with status running produces no
\* tool_result item, neither in the chat stream nor in the export
\* conversion.
C9_RunningNoToolResult ==
    /\ \A t \in Tasks : \A k \in DOMAIN Handled(t) :
           LET e == Handled(t)[k].event
           IN (e.type = "tool_use" /\ e.status = "running") =>
                  \A i \in DOMAIN Written(t, k) :
                      ~Carries(Written(t, k)[i].data, "tool_result")
    /\ exportPc = "converted" =>
           \A c \in CallIds :
               Cardinality(ToolResultItems(exported, c)) =
                   Cardinality(ToolParts(session, c, {"completed", "error"}))

\* The lines a terminal tool part yields in the chat stream: an assistant
\* message with the tool_use and, directly after it, a user message with
\* the tool_result of the same id.
ToolPairWritten(t, k) ==
    LET e == Handled(t)[k].event
        sid == Handled(t)[k].resolved
        w == Written(t, k)
    IN /\ Len(w) = 2
       /\ w[1] = ClaudeJson(createAssistantMessage(sid,
                     <<[type |-> "tool_use", id |-> e.callID]>>))
       /\ IsMessage(w[2], "user")
       /\ w[2].data.session_id = sid
       /\ Len(w[2].data.content) = 1
       /\ w[2].data.content[1].type = "tool_result"
       /\ w[2].data.content[1].tool_use_id = e.callID

\* In an export response: one tool_use item per tool part, one tool_result
\* item per terminal tool part, and every message with a tool_result
\* directly follows the assistant message that ends with its tool_use.
ExportToolPairs ==
    /\ \A c \in CallIds :
           /\ Cardinality(ToolUseItems(exported, c)) =
                  Cardinality(ToolParts(session, c, Statuses))
           /\ Cardinality(ToolResultItems(exported, c)) =
                  Cardinality(ToolParts(session, c, {"completed", "error"}))
    /\ \A i \in DOMAIN exported :
           Carries(exported[i], "tool_result") =>
               /\ exported[i].type = "user"
               /\ Len(exported[i].content) = 1
               /\ i > 1
               /\ exported[i - 1].type = "assistant"
               /\ LET prev == exported[i - 1].content
                  IN /\ prev # <<>>
                     /\ prev[Len(prev)] =
                            [type |-> "tool_use",
                             id |-> exported[i].content[1].tool_use_id]

\* C10 (as claimed): every tool part with status completed or error yields
\* one tool_use and one tool_result item with the same id, in two messages
\* that follow each other directly, in the chat stream and in the export.
C10_ToolPairAlways ==
    /\ \A t \in Tasks : \A k \in DOMAIN Handled(t) :
           LET e == Handled(t)[k].event
           IN (e.type = "tool_use" /\ Terminal(e.status)) =>
                  ToolPairWritten(t, k)
    /\ exportPc = "converted" => ExportToolPairs

\* C10 (amended): the same for every tool_use event of the chat stream for
\* which a session id is known (its own or the stream's), and for every
\* tool part of an assistant turn of an export.
C10_ToolPairWithSession ==
    /\ \A t \in Tasks : \A k \in DOMAIN Handled(t) :
           LET e == Handled(t)[k].event
           IN ( /\ e.type = "tool_use" /\ Terminal(e.status)
                /\ Handled(t)[k].resolved # NoSid ) =>
                  ToolPairWritten(t, k)
    /\ exportPc = "converted" => ExportToolPairs

\* C10 witness: a terminal tool event was handled after another event and
\* its two messages were written.
C10_Witness ==
    \E t \in Tasks :
        /\ Len(Handled(t)) = 2
        /\ Handled(t)[2].event.type = "tool_use"
        /\ Terminal(Handled(t)[2].event.status)
        /\ Handled(t)[2].after = Handled(t)[2].before + 2

\* The tool_result that rejects an exit-plan-mode call.
Rejection(callID) ==
    [type |-> "tool_result", tool_use_id |-> callID,
     content |-> "Exit plan mode?", is_error |-> TRUE]

RejectionItems(messages, id) ==
    {ij \in ToolResultItems(messages, id) :
        messages[ij[1]].content[ij[2]] = Rejection(id)}

ExitPlanParts(messages, callID) ==
    {ij \in ToolParts(messages, callID, {"completed", "error"}) :
        isExitPlanModeTool(messages[ij[1]].parts[ij[2]])}

\* C11 (as claimed): a tool call whose name normalises to exitplanmode
\* yields a tool_result with is_error true and the fixed rejection text,
\* in the chat stream (for an event with a known session id) and in the
\* export conversion (for a completed or errored part).
C11_ExitPlanModeRejected ==
    /\ \A t \in Tasks : \A k \in DOMAIN Handled(t) :
           LET e == Handled(t)[k].event
           IN ( /\ e.type = "tool_use" /\ isExitPlanModeTool(e)
                /\ Handled(t)[k].resolved # NoSid ) =>
                  /\ Len(Written(t, k)) = 2
                  /\ Written(t, k)[2].data.content = <<Rejection(e.callID)>>
    /\ exportPc = "converted" =>
           \A c \in CallIds :
               Cardinality(RejectionItems(exported, c)) =
                   Cardinality(ExitPlanParts(session, c))

\* C12 (as claimed): once the client of a chat response has dropped the
\* connection, the CLI process of the request has been sent a kill signal
\* and the request has no registry entry, while the process is still alive.
C12_DropKillsAndUnregisters ==
    \A t \in Tasks :
        (chat[t].cancelled /\ Live(t)) =>
            /\ signalled[t]
            /\ registry[req[t].requestId] # t

\* The process of a request could not be launched.
LaunchFailed(t) == child[t] \in {"failed", "failedClosed", "unspawned"}

\* C13 (as claimed): the exit result of a runCommandStream call settles
\* once, with one exit code: a settled result never changes, and when the
\* process cannot be launched the result is settled with code 1.
C13_ExitSettlesOnce ==
    /\ [](\A t \in Tasks : LaunchFailed(t) => exit[t] = 1)
    /\ [][\A t \in Tasks : exit[t] # Unsettled => exit'[t] = exit[t]]_vars

\* The starts in flight: spawned, with health polling under way.
InFlight == {s \in StartIds : start[s] \in {"polling", "overdue"}}

\* C14 (as claimed): at any time at most one server start is in flight,
\* also when restart calls are interleaved with a start.
C14_AtMostOneStartInFlight == Cardinality(InFlight) <= 1

\* C15: with an externally configured server URL no server process is ever
\* spawned or killed and no start is ever in flight, whatever ensure and
\* restart calls are made; an ensure call that found the server unhealthy
\* has failed without waiting for anything.
C15_ExternalNeverSpawned ==
    external =>
        /\ spawns = 0 /\ serverKills = 0
        /\ process = NoStart /\ starting = NoStart /\ InFlight = {}
        /\ \A c \in Callers :
               /\ caller[c].pc # "awaiting"
               /\ (caller[c].pc = "done" /\ caller[c].op = "ensure"
                       /\ ~caller[c].ok) => caller[c].result = "error"

\* C15 witness: with an external server, an ensure call has failed on an
\* unhealthy server while a restart call has returned.
C15_Witness ==
    /\ external
    /\ \E c, d \in Callers :
           /\ caller[c].op = "ensure" /\ caller[c].pc = "done"
           /\ ~caller[c].ok /\ caller[c].result = "error"
           /\ caller[d].op = "restart" /\ caller[d].pc = "done"

\* What a permission policy says about a tool: its own entry, else the
\* entry for "*".
Decision(policy, tool) ==
    IF tool \in DOMAIN policy THEN policy[tool]
    ELSE IF "*" \in DOMAIN policy THEN policy["*"]
    ELSE "unspecified"

Built == argResult # NoArgs
Policy == argResult.env[1].OPENCODE_PERMISSION

\* The value that follows a flag in the arguments.
After(args, flag) ==
    {args[i + 1] : i \in {j \in 1..(Len(args) - 1) : args[j] = [word |-> flag]}}

\* C16: for each permission mode (plan, default, acceptEdits) the policy
\* passed to the CLI denies the question tool; for plan and default it
\* denies every tool, for acceptEdits it allows every tool but question.
C16_QuestionAlwaysDenied ==
    (Built /\ argRequest.permissionMode \in Modes) =>
        /\ Decision(Policy, "question") = "deny"
        /\ argRequest.permissionMode \in {"plan", "default"} =>
               \A tool \in PolicyTools : Decision(Policy, tool) = "deny"
        /\ argRequest.permissionMode = "acceptEdits" =>
               \A tool \in PolicyTools \ {"question"} :
                   Decision(Policy, tool) = "allow"

\* C16 witness: the invocation for a request in mode default was built.
C16_Witness ==
    /\ Built
    /\ argRequest.permissionMode = "default"
    /\ Decision(Policy, "bash") = "deny"

\* C17 (as claimed): the agent passed to the CLI is plan for permission
\* mode plan and build for the modes acceptEdits and default.
C17_AgentForMode ==
    (Built /\ argRequest.permissionMode \in Modes) =>
        After(argResult.args, "--agent") =
            {[agent |-> IF argRequest.permissionMode = "plan" THEN "plan"
                        ELSE "build"]}

\* A path lies in the tree of a directory: the segments of the directory
\* are the first segments of the path.
InsideTree(path, directory) ==
    LET p == NormalizeSegments(Segments(path), <<>>)
        d == NormalizeSegments(Segments(directory), <<>>)
    IN Len(d) <= Len(p) /\ SubSeq(p, 1, Len(d)) = d

\* The absolute form of the working directory of a query.
WorkingTree == resolve(fileQuery.workingDirectory, <<>>)

\* C20 (as claimed): a file request is resolved to a path only when that
\* path lies inside the tree of the working directory; every other request
\* with a path and a working directory is answered 403.
C20_ResolvesInsideWorkingDirectory ==
    (fileResponse # NoFileResponse /\ fileResponse.path # NoPath) =>
        InsideTree(fileResponse.path, WorkingTree)

\* The messages of an export response, by kind.
ToolResultMessages == {i \in DOMAIN exported : Carries(exported[i], "tool_result")}
UserMessages ==
    {i \in DOMAIN exported : exported[i].type = "user"} \ ToolResultMessages
AssistantMessages == {i \in DOMAIN exported : exported[i].type = "assistant"}

Turns(role) == {i \in DOMAIN session : session[i].role = role}

\* The tool parts of the assistant turns with a status in a given set.
ToolCalls(statuses) ==
    UNION {ToolParts(session, c, statuses) : c \in CallIds}

RECURSIVE ContentRuns(_, _)
ContentRuns(parts, pending) ==
    IF parts = <<>> THEN (IF pending THEN 1 ELSE 0)
    ELSE LET part == Head(parts)
         IN IF part.type = "tool"
            THEN IF Terminal(part.status)
                 THEN 1 + ContentRuns(Tail(parts), FALSE)
                 ELSE ContentRuns(Tail(parts), TRUE)
            ELSE IF part.type \in {"text", "reasoning"} /\ part.text # ""
            THEN ContentRuns(Tail(parts), TRUE)
            ELSE ContentRuns(Tail(parts), pending)

RECURSIVE AssistantRuns(_)
AssistantRuns(messages) ==
    IF messages = <<>> THEN 0
    ELSE (IF Head(messages).role = "assistant"
          THEN ContentRuns(Head(messages).parts, FALSE)
          ELSE 0) + AssistantRuns(Tail(messages))

C19_TimestampOrder ==
    exportPc = "converted" =>
        /\ \A i, j \in DOMAIN exported :
               i < j => exported[i].timestamp.iso <= exported[j].timestamp.iso
        /\ \A i \in ToolResultMessages : exported[i].timestamp = toIso(3)

\* The output of the session list command does not parse after clean-up.
ParseFails(run) ==
    ~JsonParse(StripTrailingCommas(cleanOutput(run.stdout))).ok

\* C21: when the session-list output cannot be parsed as JSON after
\* clean-up, the history list call answers 200 with no conversation and a
\* diagnostic payload that carries the parse error.
C21_ParseFailureAnswersEmpty ==
    ( /\ historiesResponse # NoHistories
      /\ historiesRun.success
      /\ Trim(historiesRun.stdout) # <<>>
      /\ ParseFails(historiesRun) ) =>
        /\ historiesResponse.status = 200
        /\ historiesResponse.conversations = <<>>
        /\ historiesResponse.debug.parseError # NoError
        /\ historiesResponse.debug.dataType = "error"

\* C21 witness: the output was an array cut short, and the call was
\* answered.
C21_Witness ==
    /\ historiesResponse # NoHistories
    /\ historiesRun.success
    /\ historiesRun.stdout = <<LB, LC, Members(NoRecord)>>
    /\ historiesResponse.status = 200
    /\ historiesResponse.debug.parseError = "SyntaxError"

\* C22 (as claimed): output in which a JSON array is preceded by a
\* byte-order mark or other noise, followed by noise, or holds trailing
\* commas is answered like the clean array.
C22_NoisyArrayParsedLikeClean ==
    ( /\ historiesResponse # NoHistories
      /\ historiesRun.success
      /\ historiesRun.array # NoArray ) =>
        LET clean == HistoriesResponse(
                         [historiesRun EXCEPT !.stdout = historiesRun.array])
        IN /\ historiesResponse.status = clean.status
           /\ historiesResponse.conversations = clean.conversations

\* The own keys of the override table: what the table is said to map.
InOverrideTable(tool) == ToLowerCase(tool) \in OverrideKeys

\* C23 (as claimed): a tool name whose lower-cased form is in the override
\* table maps to the display name the table fixes for it (todowrite to
\* TodoWrite), every other name to the concatenation of its segments
\* between '_' and '-', each with its first character in upper case
\* (web_fetch to WebFetch).
C23_ToolNameCanonical ==
    claudeName.converted =>
        /\ InOverrideTable(toolName) =>
               claudeName.name = TOOL_NAME_OVERRIDES[ToLowerCase(toolName)]
        /\ ~InOverrideTable(toolName) =>
               claudeName.name = JoinCapitalized(SplitName(toolName, <<>>, <<>>))
        /\ toolName = <<Lo("todo"), Lo("write")>> =>
               claudeName.name = <<Cap("todo"), Cap("write")>>
        /\ toolName = <<Lo("web"), Underscore, Lo("fetch")>> =>
               claudeName.name = <<Cap("web"), Cap("fetch")>>

\* A content item that is missing or empty.
EmptyItem(item) ==
    \/ item = NoItem
    \/ item.type = "text" /\ item.text = ""
    \/ item.type = "thinking" /\ item.thinking = ""

\* C24: an empty text or reasoning part yields no content item: the item
\* builders return null for the empty string, a text event with an empty
\* text writes no message to the chat stream, and no message of a chat
\* stream or of an export response holds an empty or missing item.
C24_EmptyPartsYieldNothing ==
    /\ createTextItem("") = NoItem
    /\ createThinkingItem("") = NoItem
    /\ \A t \in Tasks :
           /\ \A k \in DOMAIN Handled(t) :
                  LET e == Handled(t)[k].event
                  IN (e.type = "text" /\ e.text = "") => Written(t, k) = <<>>
           /\ \A i \in DOMAIN Out(t) : \A j \in DOMAIN Out(t)[i].data.content :
                  ~EmptyItem(Out(t)[i].data.content[j])
    /\ exportPc = "converted" =>
           \A i \in DOMAIN exported : \A j \in DOMAIN exported[i].content :
               ~EmptyItem(exported[i].content[j])

\* C24 witness: an assistant turn with an empty reasoning part and a text
\* was converted to one message with the text alone.
C24_Witness ==
    /\ exportPc = "converted"
    /\ Len(session) = 1
    /\ session[1].role = "assistant"
    /\ session[1].parts = <<[type |-> "reasoning", text |-> ""], TextPart("a")>>
    /\ Len(exported) = 1
    /\ exported[1].content = <<[type |-> "text", text |-> "a"]>>

\* The child.kill() calls made for the request of a task.
KillCalls(t) == listenerKills[t] + callbackKills[t]

\* C25 (as claimed): whatever the interleaving of abort calls with the
\* completion of a chat request, the kill operation of its CLI process is
\* invoked at most once.
C25_KillAtMostOnce == \A t \in Tasks : KillCalls(t) <= 1

\* The CLI process of a task runs and no abort call has reached it.
Running(t) == pc[t] = "streaming" /\ Live(t) /\ ~aborted[t]

\* C26 (as claimed): the registration and the cleanup of a chat request
\* never replace or remove the registry entry of another request task that
\* is still running, so that every running CLI process that was not
\* aborted has its entry in the registry.
C26_EntryOfRunningTaskKept ==
    \A t \in Tasks : Running(t) => registry[req[t].requestId] = t

\* C27 (as claimed): an abort call that arrives while the CLI process of a
\* request runs and was not aborted finds the entry of the request, kills
\* the process and answers success.
C27_AbortFindsRunningRequest ==
    [][\A r \in ReqIds : \A t \in Tasks :
          (AbortRequest(r) /\ Running(t) /\ req[t].requestId = r) =>
              /\ abortResp' = [requestId |-> r, status |-> 200]
              /\ aborted'[t]
              /\ signalled'[t]
              /\ callbackKills'[t] = callbackKills[t] + 1]_vars

\* The command stream of a task has reported completion to its consumer.
Completed(t) == ended[t] /\ pc[t] = "closed"

\* C28 (as claimed): when a command stream has reported completion, every
\* chunk the child produced was delivered to the consumer before: none is
\* pushed late and left in the queue of the stream, and no read is left
\* pending.
C28_AllChunksBeforeCompletion ==
    \A t \in Tasks :
        Completed(t) => (queue[t] = <<>> /\ waiters[t] = 0)

\* A chunk of each source.
StdoutChunk(text) == [source |-> "stdout", text |-> text]
StderrChunk(text) == [source |-> "stderr", text |-> text]

\* C29: what a chat stream task holds and has written depends on the
\* concatenation of the stdout chunk texts only: reading the next output
\* of the CLI as one chunk or as two, cut anywhere, gives the same, a
\* stderr chunk before or after a stdout chunk gives the same, and a
\* stderr chunk writes no line and leaves the line buffer as it is.
C29_ChunkBoundariesDoNotMatter ==
    \A t \in Tasks :
        pc[t] = "streaming" =>
            LET c == chat[t]
                p == pipe[t]
            IN /\ \A n \in 0..Len(p) : \A m \in 0..n :
                      HandleChunk(c, StdoutChunk(SubSeq(p, 1, n))) =
                          HandleChunk(
                              HandleChunk(c, StdoutChunk(SubSeq(p, 1, m))),
                              StdoutChunk(SubSeq(p, m + 1, n)))
               /\ \A x \in StderrTexts :
                      LET e == HandleChunk(c, StderrChunk(x))
                      IN /\ e.out = c.out
                         /\ e.buffer = c.buffer
                         /\ e.handled = c.handled
                         /\ \A n \in 0..Len(p) :
                                HandleChunk(e, StdoutChunk(SubSeq(p, 1, n))) =
                                    HandleChunk(
                                        HandleChunk(c,
                                            StdoutChunk(SubSeq(p, 1, n))),
                                        StderrChunk(x))

\* C29 witness: the first half of an event line was read as a chunk, a
\* stderr chunk came next, and the rest of the line is still to be read.
C29_Witness ==
    \E t \in Tasks : \E e \in Events :
        /\ pc[t] = "streaming"
        /\ chat[t].buffer = <<H(e)>>
        /\ chat[t].stderrText # <<>>
        /\ queue[t] = <<>>
        /\ pipe[t] = <<T(e), NL>>

\* The text a stream task has yet to split into lines when the pending
\* output of the CLI reaches it: what it holds and what is pending.
Unread(t) == chat[t].buffer \o pipe[t]

\* The first line of a text is complete and fails to parse as JSON.
MalformedFirst(text) ==
    LET lines == Split(text)
    IN /\ Len(lines) >= 2
       /\ Trim(lines[1]) # <<>>
       /\ ~ParseOk(Trim(lines[1]))

\* A text without its first line.
AfterFirstLine(text) ==
    SubSeq(text, Len(Split(text)[1]) + 2, Len(text))

\* C30: a stdout line that fails to parse writes no line and changes
\* nothing; the lines after it are handled as they would be without it,
\* and the stream is closed with a done line whatever the exit code.
C30_MalformedLineSkipped ==
    \A t \in Tasks :
        (pc[t] = "streaming" /\ MalformedFirst(Unread(t))) =>
            LET c == chat[t]
                with == HandleChunk(c, StdoutChunk(pipe[t]))
                without == HandleChunk([c EXCEPT !.buffer = <<>>],
                               StdoutChunk(AfterFirstLine(Unread(t))))
            IN /\ HandleLine(c, Split(Unread(t))[1]) = c
               /\ with = without
               /\ \A code \in ExitCodes :
                      LET end == FinishStream(with, code)
                      IN /\ end = FinishStream(without, code)
                         /\ end.closed
                         /\ end.out[Len(end.out)] = DoneLine

\* C30 witness: the task has read the text of a line that is not JSON;
\* the end of that line and a whole event line are pending.
C30_Witness ==
    \E t \in Tasks : \E e \in Events :
        /\ pc[t] = "streaming"
        /\ chat[t].buffer = <<G>>
        /\ queue[t] = <<>>
        /\ pipe[t] = <<NL>> \o JsonText(e) \o <<NL>>

\* C31 (as claimed): at any time at most one server process spawned by
\* the backend is running, also after a start timeout and after a
\* restart.
C31_AtMostOneServerProcess == Cardinality(alive) <= 1

\* The call of caller c returns successfully in this step.
ReturnsUrl(c) ==
    /\ caller[c].pc # "done"
    /\ caller'[c].pc = "done"
    /\ caller'[c].result = "url"

\* C32 (as claimed): when a restart call returns successfully, the health
\* check that let it return was not answered by a server process that
\* kill() had been called on.
C32_RestartAnsweredByNewServer ==
    [][\A c \in Callers :
          (caller[c].op = "restart" /\ ReturnsUrl(c)) =>
              serving \notin killed]_vars

\* Start s ends in this step because its server did not become healthy.
TimesOut(s) == s \in InFlight /\ start'[s] = "rejected"

\* The ensure call of caller c goes on in this step from a health check
\* that failed, with an owned server and no start in flight.
Retries(c) ==
    /\ caller[c].pc = "health" /\ caller'[c].pc # "health"
    /\ ~healthy /\ ~external /\ starting = NoStart

\* C33 (as claimed): a start whose server does not become healthy in time
\* fails every ensure call waiting for it and leaves state.starting and
\* state.process cleared; an ensure call that then finds the server
\* still unhealthy spawns anew; and no ensure call is still waiting once
\* the start timeout has passed.
C33_TimeoutFailsAndClears ==
    /\ [][\A s \in StartIds :
            TimesOut(s) =>
                /\ process' = NoStart /\ starting' = NoStart
                /\ \A c \in Callers :
                       (caller[c].pc = "awaiting" /\ caller[c].awaits = s)
                           => (caller'[c].pc = "done"
                                   /\ caller'[c].result = "error")]_vars
    /\ [][\A c \in Callers :
            Retries(c) => (spawns' = spawns + 1 /\ process' = spawns'
                              /\ starting' = spawns')]_vars
    /\ [](\A c \in Callers :
            caller[c].pc = "awaiting" => start[caller[c].awaits] # "overdue")

\* The session objects the output of a run parses to.
SessionsOf(run) ==
    parse(StripTrailingCommas(cleanOutput(run.stdout))).data

\* The output of a run parses to a list of session objects.
ParsedSessionList(run) ==
    /\ run.success
    /\ Trim(run.stdout) # <<>>
    /\ ~ParseFails(run)
    /\ \A i \in DOMAIN SessionsOf(run) : SessionsOf(run)[i].t = "object"

\* The records of a run that the list is to show: with an id, and in the
\* queried directory when a directory is queried and any record has one.
Listed(run) ==
    LET records == Mapped(SessionsOf(run))
        target == normalize(run.path)
        byDirectory ==
            run.path # <<>>
                /\ \E i \in DOMAIN records : records[i].directory # <<>>
    IN {i \in DOMAIN records :
           /\ records[i].id # ""
           /\ byDirectory =>
                  (records[i].directory # <<>>
                      /\ normalize(records[i].directory) = target)}

\* C34 (as claimed): for a parsed session list the history list call
\* answers 200 with one conversation for every record that has an id and
\* passes the directory filter, latest update first (no update time
\* counting as zero), also when a record has no updated or created time.
C34_ListsEveryRecordWithId ==
    (historiesResponse # NoHistories /\ ParsedSessionList(historiesRun)) =>
        LET records == Mapped(SessionsOf(historiesRun))
            listed == historiesResponse.conversations
        IN /\ historiesResponse.status = 200
           /\ Len(listed) = Cardinality(Listed(historiesRun))
           /\ {listed[i].sessionId : i \in DOMAIN listed} =
                  {records[i].id : i \in Listed(historiesRun)}
           /\ \A i, j \in DOMAIN listed :
                  i < j => OrZero(listed[i].lastTime.iso)
                               >= OrZero(listed[j].lastTime.iso)

\* The session ids carried by the init, assistant and user messages a
\* stream task has written.
SessionIdsWritten(t) ==
    {chat[t].out[i].data.session_id :
        i \in {j \in DOMAIN chat[t].out :
                  /\ chat[t].out[j].type = "claude_json"
                  /\ chat[t].out[j].data.type
                         \in {"system", "assistant", "user"}}}

\* C35 (as claimed): the init, assistant and user messages of one chat
\* stream all carry the same session id, also when the request gave a
\* session id and the events of the CLI carry another one or none.
C35_OneSessionIdPerStream ==
    \A t \in Tasks : Cardinality(SessionIdsWritten(t)) <= 1

\* The lines of a stream that carry a message of the Claude protocol, and
\* among them the init messages.
ProtocolLines(o) == {i \in DOMAIN o : o[i].type = "claude_json"}
InitLines(o) == {i \in ProtocolLines(o) : o[i].data.type = "system"}

\* C36: in every chat stream an assistant, user or result message comes
\* after the init message: the first protocol message written is init.
C36_InitBeforeContent ==
    \A t \in Tasks :
        \A i \in ProtocolLines(chat[t].out) \ InitLines(chat[t].out) :
            \E j \in InitLines(chat[t].out) : j < i

\* C36 witness: a text event without session id came first on a request
\* without session id and wrote nothing; the next event gave the session
\* id, and init and the assistant message were written in this order.
C36_Witness ==
    \E t \in Tasks :
        /\ req[t].sessionId = NoSid
        /\ Len(Handled(t)) = 2
        /\ Handled(t)[1].event.type = "text"
        /\ Handled(t)[1].resolved = NoSid
        /\ Len(chat[t].out) = 2
        /\ chat[t].out[1].data.type = "system"
        /\ chat[t].out[2].data.type = "assistant"

\* The error events a stream task has handled.
ErrorsHandled(t) ==
    {k \in DOMAIN Handled(t) : Handled(t)[k].event.type = "error"}

\* C37 (as claimed): a stream that ended after the process exited holds
\* one error line for every error event handled and no other error line
\* when the exit code is 0 or an error event was handled: no fallback
\* error is written beside a structured one.
C37_NoFallbackBesideStructured ==
    \A t \in Tasks :
        ( /\ term[t] = "normal"
          /\ (exit[t] = 0 \/ ErrorsHandled(t) # {}) )
        => Cardinality(ErrorLines(Out(t))) = Cardinality(ErrorsHandled(t))

\* C38 (as claimed): the permission policy and the agent passed to the
\* CLI are those of the permission mode the init message echoes: a
\* request without permissionMode, echoed as default, gets the policy and
\* the agent of a request in mode default.
C38_PolicyOfEchoedMode ==
    Built =>
        /\ Policy = getPermissionEnv(EchoedMode(argRequest))
        /\ After(argResult.args, "--agent") =
               {[agent |-> getAgentName(EchoedMode(argRequest))]}
        /\ EchoedMode(argRequest) = "default" =>
               \A tool \in PolicyTools : Decision(Policy, tool) = "deny"

\* C39 (as claimed): when a stream has ended after the exit of the
\* process, no text of the CLI is left in the line buffer: a last line
\* without a newline was handled like the others.
C39_NoTextLeftInBuffer ==
    \A t \in Tasks : term[t] = "normal" => Trim(chat[t].buffer) = <<>>

\* C40: in the channel of a command stream the queue and the waiting
\* readers are never both non-empty; once the stream has ended no reader
\* waits; and every next() call made, before or after the end, has
\* resolved with a chunk or with done unless it waits for a stream that
\* has not ended.
C40_QueueOrWaitersEmpty ==
    \A t \in Tasks :
        /\ ~(queue[t] # <<>> /\ waiters[t] > 0)
        /\ ended[t] => waiters[t] = 0
        /\ \A i \in DOMAIN reads[t] :
               IF reads[t][i].done THEN reads[t][i].value = NoChunk
               ELSE reads[t][i].value \in ChannelChunks
        /\ \A i \in DOMAIN reads[t] :
               reads[t][i].via = "ended" => queue[t] = <<>>

\* C40 witness: the stream has ended, and reads were resolved in each of
\* the four ways: by push, from the queue, by finish, and after the end.
C40_Witness ==
    /\ ended["t1"]
    /\ {reads["t1"][i].via : i \in DOMAIN reads["t1"]} =
           {"push", "queue", "finish", "ended"}

====
